---------------------------- MODULE Spec2Model ----------------------------
(***************************************************************************)
(* A model of the reddit-persona pipeline: text normalisation and content  *)
(* filtering (src/src/data_processor.py), aggregation of raw activity into *)
(* a corpus, and the facet-by-facet assembly of the persona document       *)
(* (src/src/persona_generator.py).                                         *)
(*                                                                         *)
(* A text is a sequence of one-character strings, so that the regular      *)
(* expressions of _clean_text are computed character by character.         *)
(***************************************************************************)
EXTENDS Integers, Sequences, FiniteSets, TLC

VARIABLES
    pc,                \* position of the run
    text,              \* the argument of _clean_text / _is_valid_content
    cleaned,           \* _clean_text(text)
    recleaned,         \* _clean_text(_clean_text(text))
    valid,             \* _is_valid_content(text)
    user_data,         \* the fetch result, the argument of process_user_data
    processed_data,    \* what process_user_data returned
    include_citations, \* PersonaGenerator.include_citations
    evidence,          \* generate_persona: its local `content`, the evidence text
    persona_sections,  \* generate_persona: the sections made so far
    calls,             \* the requests sent to the completion backend, in order
    persona,           \* what generate_persona returned
    analysis,          \* _extract_citations: its argument `analysis`
    top_citations,     \* what _extract_citations returned
    url,               \* main: args.url
    ran,               \* main: the steps taken so far, each with its outcome
    exit_status,       \* main: "running", or the status the process exited with
    output_file,       \* main: what was written to the output file
    summary,           \* main: what was printed after the file was written
    subreddit_name,    \* _categorize_subreddit: its argument
    category,          \* what _categorize_subreddit returned
    submissions,       \* what user.submissions.new has to deliver, newest first
    user_comments,     \* what user.comments.new has to deliver, newest first
    max_posts,         \* RedditScraper.max_posts
    max_comments,      \* RedditScraper.max_comments
    scraped_posts,     \* what _scrape_user_posts returned
    scraped_comments,  \* what _scrape_user_comments returned
    url_ok,            \* what validate_url returned
    extracted,         \* what extract_username returned
    func_outcomes,     \* rate_limit_handler: what func does, invocation by invocation
    attempts,          \* rate_limit_handler: the invocations of func made so far
    delays,            \* rate_limit_handler: the time.sleep calls made so far
    wrapper_result     \* rate_limit_handler: "running", or how the wrapper ended

textVars == <<text, cleaned, recleaned, valid>>
aggVars == <<user_data, processed_data>>
personaVars == <<include_citations, evidence, persona_sections, calls, persona>>
citeVars == <<analysis, top_citations>>
mainVars == <<url, ran, exit_status, output_file, summary>>
categoryVars == <<subreddit_name, category>>
fetchVars == <<submissions, user_comments, max_posts, max_comments, scraped_posts,
               scraped_comments>>
urlVars == <<url_ok, extracted>>
retryVars == <<func_outcomes, attempts, delays, wrapper_result>>
unitVars == <<categoryVars, fetchVars, urlVars, retryVars>>
vars == <<pc, textVars, aggVars, personaVars, citeVars, mainVars, unitVars>>

-----------------------------------------------------------------------------
(* Characters                                                              *)

LowerSeq == <<"a","b","c","d","e","f","g","h","i","j","k","l","m",
              "n","o","p","q","r","s","t","u","v","w","x","y","z">>
UpperSeq == <<"A","B","C","D","E","F","G","H","I","J","K","L","M",
              "N","O","P","Q","R","S","T","U","V","W","X","Y","Z">>
Letters == {LowerSeq[i] : i \in 1..26} \cup {UpperSeq[i] : i \in 1..26}
Digits == {"0","1","2","3","4","5","6","7","8","9"}

\* \w of the re module
WordChars == Letters \cup Digits \cup {"_"}

\* the characters str.split() and ' '.join(text.split()) treat as blank
Whitespace == {" ", "\n", "\t"}

\* The character class of the URL pattern: [a-zA-Z] | [0-9] | [$-_@.&+] |
\* [!*\\(\\),].  In [$-_@.&+] the "$-_" is a range, from "$" (0x24) to "_"
\* (0x5F); "%" of the percent-escape alternative lies in that range too.
UrlChars ==
    Letters \cup Digits
    \cup {"$","%","&","'","(",")","*","+",",","-",".","/",":",";","<","=",">",
          "?","@","[","\\","]","^","_"}
    \cup {"!"}

\* str.lower() on one character
LowerChar(c) ==
    IF \E i \in 1..26 : UpperSeq[i] = c
    THEN LowerSeq[CHOOSE i \in 1..26 : UpperSeq[i] = c]
    ELSE c

lower(s) == [i \in 1..Len(s) |-> LowerChar(s[i])]

-----------------------------------------------------------------------------
(* Helpers of the regular expressions                                      *)

Drop(s, n) == SubSeq(s, n + 1, Len(s))

HasPrefix(s, p) == Len(s) >= Len(p) /\ SubSeq(s, 1, Len(p)) = p

\* the length of the longest prefix of s made of characters of S
RECURSIVE RunLen(_, _)
RunLen(s, S) ==
    IF s # <<>> /\ Head(s) \in S THEN 1 + RunLen(Tail(s), S) ELSE 0

\* whether p occurs in s
Contains(s, p) ==
    \E i \in 1..(Len(s) - Len(p) + 1) : SubSeq(s, i, i + Len(p) - 1) = p


\* the sequences over S of length at most n
SeqsUpTo(S, n) == UNION {[1..k -> S] : k \in 0..n}

\* the least element of a non-empty set of numbers
Min(S) == CHOOSE x \in S : \A y \in S : x <= y

-----------------------------------------------------------------------------
(* _clean_text: the substitutions, in the order of the code.  re.sub scans *)
(* the text from the left, replaces the match that starts at the current   *)
(* position, when there is one, and goes on after it.                      *)

\* the length of the match of
\*   http[s]?://(?:[a-zA-Z]|[0-9]|[$-_@.&+]|[!*\\(\\),]|(?:%[0-9a-fA-F][0-9a-fA-F]))+
\* at the start of s (0: no match); the repetition is greedy
UrlMatchLen(s) ==
    LET scheme == IF HasPrefix(s, <<"h","t","t","p","s",":","/","/">>) THEN 8
                  ELSE IF HasPrefix(s, <<"h","t","t","p",":","/","/">>) THEN 7
                  ELSE 0
        run == RunLen(Drop(s, scheme), UrlChars)
    IN  IF scheme > 0 /\ run > 0 THEN scheme + run ELSE 0

RECURSIVE RemoveUrls(_)
RemoveUrls(s) ==
    IF s = <<>> THEN <<>>
    ELSE LET n == UrlMatchLen(s)
         IN  IF n > 0 THEN RemoveUrls(Drop(s, n))
             ELSE <<Head(s)>> \o RemoveUrls(Tail(s))

\* MentionMatchLen with the pattern /u/\w, its "+" lost: one character of the
\* name is removed and the rest stays in the text
MentionMatchLen_one(s, sigil) ==
    IF HasPrefix(s, sigil) /\ RunLen(Drop(s, Len(sigil)), WordChars) > 0
    THEN Len(sigil) + 1 ELSE 0

\* the length of the match of /u/\w+ (or /r/\w+) at the start of s
MentionMatchLen(s, sigil) ==
    LET run == RunLen(Drop(s, Len(sigil)), WordChars)
    IN  IF HasPrefix(s, sigil) /\ run > 0 THEN Len(sigil) + run ELSE 0

RECURSIVE RemoveMentions(_, _)
RemoveMentions(s, sigil) ==
    IF s = <<>> THEN <<>>
    ELSE LET n == MentionMatchLen(s, sigil)
         IN  IF n > 0 THEN RemoveMentions(Drop(s, n), sigil)
             ELSE <<Head(s)>> \o RemoveMentions(Tail(s), sigil)

\* For the pattern m(.*?)m: the position in r (the text after an opening
\* marker) of the closing marker, 0 when there is none.  The group is lazy,
\* so it is the first occurrence of m, and "." matches no line break.
FindClose(r, m) ==
    LET ks == {k \in 1..(Len(r) - Len(m) + 1) :
                  /\ SubSeq(r, k, k + Len(m) - 1) = m
                  /\ \A j \in 1..(k - 1) : r[j] # "\n"}
    IN  IF ks = {} THEN 0 ELSE Min(ks)

\* re.sub(m(.*?)m, \1, s)
RECURSIVE Unwrap(_, _)
Unwrap(s, m) ==
    IF s = <<>> THEN <<>>
    ELSE IF HasPrefix(s, m) /\ FindClose(Drop(s, Len(m)), m) > 0
         THEN LET r == Drop(s, Len(m))
                  k == FindClose(r, m)
              IN  SubSeq(r, 1, k - 1) \o Unwrap(Drop(r, k + Len(m) - 1), m)
         ELSE <<Head(s)>> \o Unwrap(Tail(s), m)

\* re.sub of a literal pattern
RECURSIVE ReplaceAll(_, _, _)
ReplaceAll(s, pat, rep) ==
    IF s = <<>> THEN <<>>
    ELSE IF HasPrefix(s, pat) THEN rep \o ReplaceAll(Drop(s, Len(pat)), pat, rep)
         ELSE <<Head(s)>> \o ReplaceAll(Tail(s), pat, rep)

\* the length of the longest prefix of s without a blank
RECURSIVE TokenLen(_)
TokenLen(s) ==
    IF s # <<>> /\ Head(s) \notin Whitespace THEN 1 + TokenLen(Tail(s)) ELSE 0

\* str.split(): the blank-separated tokens of s
RECURSIVE split(_)
split(s) ==
    IF s = <<>> THEN <<>>
    ELSE IF Head(s) \in Whitespace THEN split(Tail(s))
         ELSE <<SubSeq(s, 1, TokenLen(s))>> \o split(Drop(s, TokenLen(s)))

\* sep.join(parts): the parts with sep between them, put together half by
\* half
RECURSIVE join(_, _)
join(sep, parts) ==
    IF parts = <<>> THEN <<>>
    ELSE IF Len(parts) = 1 THEN parts[1]
         ELSE join(sep, SubSeq(parts, 1, Len(parts) \div 2))
                  \o sep
                  \o join(sep, SubSeq(parts, Len(parts) \div 2 + 1, Len(parts)))

\* A value that is not text: None, and a non-empty value of another type
\* (a number, a list), on which re.sub raises TypeError.
None == <<"None">>
NonText == <<"NonText">>

\* "if not text": the empty text and None
Falsy(x) == x = <<>> \/ x = None

\* whether _clean_text(x) raises
clean_text_raises(x) == x = NonText

clean_text(txt) ==
    IF Falsy(txt) THEN <<>>
    ELSE LET t1 == RemoveUrls(txt)
             t2 == RemoveMentions(t1, <<"/","u","/">>)
             t3 == RemoveMentions(t2, <<"/","r","/">>)
             t4 == Unwrap(t3, <<"*","*">>)
             t5 == Unwrap(t4, <<"*">>)
             t6 == Unwrap(t5, <<"~","~">>)
             t7 == ReplaceAll(t6, <<"&","g","t",";">>, <<">">>)
             t8 == ReplaceAll(t7, <<"&","l","t",";">>, <<"<">>)
             t9 == ReplaceAll(t8, <<"&","a","m","p",";">>, <<"&">>)
         IN  join(<<" ">>, split(t9))

-----------------------------------------------------------------------------
(* _is_valid_content                                                       *)

\* PERSONA_CONFIG['min_content_length'] of config.py
min_content_length == 10

RemovalSentinels ==
    {<<"[","d","e","l","e","t","e","d","]">>,
     <<"[","r","e","m","o","v","e","d","]">>,
     <<"d","e","l","e","t","e","d">>,
     <<"r","e","m","o","v","e","d">>}

\* is_valid_content with "<=" for "<" in the length check
is_valid_content_le(content) ==
    IF Falsy(content) THEN FALSE
    ELSE IF Len(content) <= min_content_length THEN FALSE
    ELSE IF lower(content) \in RemovalSentinels THEN FALSE
    ELSE IF Len(split(content)) < 3 THEN FALSE
    ELSE TRUE

is_valid_content(content) ==
    IF Falsy(content) THEN FALSE
    ELSE IF Len(content) < min_content_length THEN FALSE
    ELSE IF lower(content) \in RemovalSentinels THEN FALSE
    ELSE IF Len(split(content)) < 3 THEN FALSE
    ELSE TRUE

-----------------------------------------------------------------------------
(* Records.  A dict is a record; a key that is absent is a field that is   *)
(* absent, and d.get(key, default) is Get.                                 *)

Get(d, key, default) == IF key \in DOMAIN d THEN d[key] ELSE default

\* An item that is no dict (a string, a number, None): item.get raises
\* AttributeError.
NonRecord == [nonrecord |-> TRUE]
IsRecord(item) == "nonrecord" \notin DOMAIN item

\* the None that _clean_post and _clean_comment return
NoItem == [none |-> TRUE]

\* A created_utc that is no number (a string): timestamps are seconds since
\* the epoch, never negative, and this value stands for the string.
NotANumber == -1
IsNumber(x) == x >= 0

-----------------------------------------------------------------------------
(* _categorize_subreddit and _get_subreddit_description                    *)

\* the dict of the code, in its declared order
categories ==
    <<[category |-> "technology", keywords |-> {
         <<"p","r","o","g","r","a","m","m","i","n","g">>,
         <<"t","e","c","h","n","o","l","o","g","y">>,
         <<"c","o","d","i","n","g">>,
         <<"p","y","t","h","o","n">>,
         <<"j","a","v","a","s","c","r","i","p","t">>,
         <<"w","e","b","d","e","v">>}],
      [category |-> "gaming", keywords |-> {
         <<"g","a","m","i","n","g">>,
         <<"g","a","m","e","s">>,
         <<"n","i","n","t","e","n","d","o">>,
         <<"x","b","o","x">>,
         <<"p","l","a","y","s","t","a","t","i","o","n">>,
         <<"s","t","e","a","m">>}],
      [category |-> "lifestyle", keywords |-> {
         <<"f","o","o","d">>,
         <<"c","o","o","k","i","n","g">>,
         <<"f","i","t","n","e","s","s">>,
         <<"f","a","s","h","i","o","n">>,
         <<"r","e","l","a","t","i","o","n","s","h","i","p","s">>}],
      [category |-> "entertainment", keywords |-> {
         <<"m","o","v","i","e","s">>,
         <<"m","u","s","i","c">>,
         <<"t","e","l","e","v","i","s","i","o","n">>,
         <<"b","o","o","k","s">>,
         <<"n","e","t","f","l","i","x">>}],
      [category |-> "news", keywords |-> {
         <<"n","e","w","s">>,
         <<"w","o","r","l","d","n","e","w","s">>,
         <<"p","o","l","i","t","i","c","s">>,
         <<"c","o","r","o","n","a","v","i","r","u","s">>}],
      [category |-> "educational", keywords |-> {
         <<"a","s","k","r","e","d","d","i","t">>,
         <<"e","x","p","l","a","i","n","l","i","k","e","i","m","f","i","v","e">>,
         <<"t","o","d","a","y","i","l","e","a","r","n","e","d">>,
         <<"s","c","i","e","n","c","e">>}],
      [category |-> "hobby", keywords |-> {
         <<"d","i","y">>,
         <<"c","r","a","f","t","s">>,
         <<"g","a","r","d","e","n","i","n","g">>,
         <<"p","h","o","t","o","g","r","a","p","h","y">>,
         <<"a","r","t">>}],
      [category |-> "sports", keywords |-> {
         <<"s","p","o","r","t","s">>,
         <<"s","o","c","c","e","r">>,
         <<"b","a","s","k","e","t","b","a","l","l">>,
         <<"f","o","o","t","b","a","l","l">>,
         <<"b","a","s","e","b","a","l","l">>}],
      [category |-> "finance", keywords |-> {
         <<"p","e","r","s","o","n","a","l","f","i","n","a","n","c","e">>,
         <<"i","n","v","e","s","t","i","n","g">>,
         <<"c","r","y","p","t","o","c","u","r","r","e","n","c","y">>,
         <<"s","t","o","c","k","s">>}],
      [category |-> "career", keywords |-> {
         <<"j","o","b","s">>,
         <<"c","a","r","e","e","r">>,
         <<"c","s","c","a","r","e","e","r","q","u","e","s","t","i","o","n","s">>,
         <<"r","e","s","u","m","e","s">>}]>>

\* categorize_subreddit with the keywords looked for in the name as given
categorize_subreddit_cased(subreddit) ==
    LET hit(i) == \E keyword \in categories[i].keywords :
                      Contains(subreddit, keyword)
        hits == {i \in 1..Len(categories) : hit(i)}
    IN  IF hits = {} THEN "other" ELSE categories[Min(hits)].category

categorize_subreddit(subreddit) ==
    LET subreddit_lower == lower(subreddit)
        hit(i) == \E keyword \in categories[i].keywords :
                      Contains(subreddit_lower, keyword)
        hits == {i \in 1..Len(categories) : hit(i)}
    IN  IF hits = {} THEN "other" ELSE categories[Min(hits)].category

descriptions ==
    <<<<<<"p","r","o","g","r","a","m","m","i","n","g">>,
        "Programming and software development discussions">>,
      <<<<"a","s","k","r","e","d","d","i","t">>,
        "Ask and answer thought-provoking questions">>,
      <<<<"g","a","m","i","n","g">>,
        "General gaming discussions and news">>,
      <<<<"t","e","c","h","n","o","l","o","g","y">>,
        "Technology news and discussions">>,
      <<<<"n","e","w","s">>,
        "Current news and events">>,
      <<<<"f","o","o","d">>,
        "Food, cooking, and recipes">>,
      <<<<"f","i","t","n","e","s","s">>,
        "Health, fitness, and exercise">>>>

get_subreddit_description(subreddit) ==
    LET hits == {i \in 1..Len(descriptions) : descriptions[i][1] = lower(subreddit)}
    IN  IF hits = {} THEN <<"Discussions about ", subreddit>>
        ELSE <<descriptions[Min(hits)][2]>>

-----------------------------------------------------------------------------
(* _clean_post, _clean_comment                                             *)

\* whether the body of the try block raises: post.get on a non-dict, or
\* re.sub on a title or a body that is not text
clean_post_raises(post) ==
    \/ ~IsRecord(post)
    \/ clean_text_raises(Get(post, "title", <<>>))
    \/ clean_text_raises(Get(post, "content", <<>>))

clean_post(post) ==
    IF clean_post_raises(post) THEN NoItem
    ELSE [id |-> Get(post, "id", "None"),
          title |-> clean_text(Get(post, "title", <<>>)),
          content |-> clean_text(Get(post, "content", <<>>)),
          subreddit |-> Get(post, "subreddit", <<>>),
          created_utc |-> Get(post, "created_utc", 0),
          score |-> Get(post, "score", 0),
          url |-> Get(post, "url", ""),
          type |-> "post"]

clean_comment_raises(comment) ==
    \/ ~IsRecord(comment)
    \/ clean_text_raises(Get(comment, "content", <<>>))

clean_comment(comment) ==
    IF clean_comment_raises(comment) THEN NoItem
    ELSE [id |-> Get(comment, "id", "None"),
          content |-> clean_text(Get(comment, "content", <<>>)),
          subreddit |-> Get(comment, "subreddit", <<>>),
          created_utc |-> Get(comment, "created_utc", 0),
          score |-> Get(comment, "score", 0),
          url |-> Get(comment, "url", ""),
          parent_post_title |-> Get(comment, "parent_post_title", <<>>),
          type |-> "comment"]

-----------------------------------------------------------------------------
(* list.sort(key=..., reverse=True)                                        *)

\* Comparing a number with a string raises TypeError; a sort of two or more
\* items whose keys are of both kinds makes such a comparison.
sort_raises(keys) ==
    \E i, j \in 1..Len(keys) : IsNumber(keys[i]) /\ ~IsNumber(keys[j])

\* sorted(items)[::-1]: descending, but equal keys come out in reverse order
sort_desc_reversed(items, keys) ==
    LET n == Len(items)
        pos(i) == 1 + Cardinality({j \in 1..n :
                         keys[j] > keys[i] \/ (keys[j] = keys[i] /\ j > i)})
    IN  [p \in 1..n |-> items[CHOOSE i \in 1..n : pos(i) = p]]

\* The sort is stable, and reverse=True keeps the original order of items
\* with equal keys: an item comes after the items with a greater key and
\* after the earlier items with an equal key.
sort_desc(items, keys) ==
    LET n == Len(items)
        pos(i) == 1 + Cardinality({j \in 1..n :
                         keys[j] > keys[i] \/ (keys[j] = keys[i] /\ j < i)})
    IN  [p \in 1..n |-> items[CHOOSE i \in 1..n : pos(i) = p]]

-----------------------------------------------------------------------------
(* The posts and comments of the fetch results                             *)

BodyApps ==
    <<"I"," ","l","o","v","e"," ","p","r","o","g","r","a","m","m","i",
      "n","g"," ","i","n"," ","p","y","t","h","o","n"," ","a","n","d",
      " ","b","u","i","l","d","i","n","g"," ","c","o","o","l"," ","a",
      "p","p","s">>
BodyCommunity ==
    <<"T","h","i","s"," ","i","s"," ","a"," ","g","r","e","a","t"," ",
      "c","o","m","m","u","n","i","t","y"," ","h","o","n","e","s","t",
      "l","y">>
BodyDeleted ==
    <<"[","d","e","l","e","t","e","d","]">>
\* long enough and of three tokens as fetched; "ok" once cleaned
BodyLink ==
    <<"*","*","o","k","*","*"," ","h","t","t","p",":","/","/","x",".",
      "c","o","/","a"," ","/","u","/","b","o","b">>
\* of exactly min_content_length characters
BodyTen ==
    <<"s","o"," ","i","t"," ","g","o","e","s">>
\* shorter than min_content_length
BodyShort ==
    <<"n","i","c","e">>
TitleApp ==
    <<"M","y"," ","a","p","p">>
TagPython ==
    <<"P","y","t","h","o","n">>
TagGaming ==
    <<"g","a","m","i","n","g">>
TagNews ==
    <<"n","e","w","s">>
TagAsk ==
    <<"A","s","k","R","e","d","d","i","t">>

RawPost(id, title, content, subreddit, created_utc, score) ==
    [id |-> id, title |-> title, content |-> content, subreddit |-> subreddit,
     created_utc |-> created_utc, score |-> score, url |-> <<"https://reddit.com/", id>>,
     type |-> "post"]

RawComment(id, content, subreddit, created_utc, score) ==
    [id |-> id, content |-> content, subreddit |-> subreddit,
     created_utc |-> created_utc, score |-> score, url |-> <<"https://reddit.com/", id>>,
     parent_post_title |-> None, type |-> "comment"]

\* well-formed and malformed posts: kept ones with equal timestamps, one of
\* them with an empty title; rejected ones under a long title (a removal
\* sentinel, a body that is too short once cleaned); one without title and
\* created_utc; one whose created_utc is a string; a body and a title that
\* are not text; an item that is no dict
RawPosts ==
    {RawPost("p1", TitleApp, BodyApps, TagPython, 200, 5),
     RawPost("p2", <<>>, BodyCommunity, TagGaming, 200, 3),
     RawPost("p3", TitleApp, BodyDeleted, TagNews, 100, 1),
     RawPost("p4", TitleApp, BodyLink, TagNews, 300, 2),
     [id |-> "p5", content |-> BodyTen, subreddit |-> TagPython,
      score |-> 4, url |-> <<"https://reddit.com/", "p5">>, type |-> "post"],
     RawPost("p6", TitleApp, BodyApps, TagGaming, NotANumber, 1),
     RawPost("p7", TitleApp, NonText, TagPython, 200, 1),
     RawPost("p8", NonText, BodyApps, TagPython, 200, 1),
     NonRecord}

RawComments ==
    {RawComment("c1", BodyCommunity, TagPython, 150, 2),
     RawComment("c2", BodyApps, TagAsk, 150, -1),
     RawComment("c3", BodyDeleted, TagNews, 400, 1),
     RawComment("c4", BodyTen, TagAsk, NotANumber, 1),
     RawComment("c5", NonText, TagAsk, 150, 1)}

\* a further post and a further comment, for the fetch results
\* generate_persona is followed on
\* the ids of the posts of a long profile
LongIds ==
    <<"L01", "L02", "L03", "L04", "L05", "L06", "L07", "L08",
      "L09", "L10", "L11", "L12", "L13", "L14", "L15", "L16",
      "L17", "L18", "L19", "L20", "L21", "L22", "L23", "L24",
      "L25", "L26", "L27", "L28", "L29", "L30", "L31", "L32",
      "L33", "L34", "L35", "L36", "L37", "L38", "L39", "L40">>

\* a long profile: as many posts as LongIds, each newer than the next
LongPosts == [i \in 1..Len(LongIds) |-> RawPost(LongIds[i], TitleApp, BodyApps, TagPython, 1000 - i, 1)]

MorePosts ==
    {LongPosts[i] : i \in 1..Len(LongIds)} \cup
    {RawPost("p9", TitleApp, BodyCommunity, TagAsk, 50, 7),
     RawPost("p10", <<>>, BodyApps, TagNews, 40, 2),
     RawPost("p11", TitleApp, BodyApps, TagAsk, 30, 0),
     RawPost("p12", TitleApp, BodyCommunity, TagPython, 20, 9)}
MoreComments ==
    {RawComment("c9", BodyCommunity, TagGaming, 20, 1),
     RawComment("c10", BodyShort, TagNews, 400, 1),
     RawComment("c11", BodyTen, TagAsk, 10, 1)}

-----------------------------------------------------------------------------
(* _process_posts, _process_comments, _process_subreddits                  *)

\* post_passes with the title filtered as well
post_passes_title(cleaned_post) ==
    /\ cleaned_post # NoItem
    /\ is_valid_content(Get(cleaned_post, "title", <<>>))
    /\ is_valid_content(Get(cleaned_post, "content", <<>>))

\* [f(x) for x in items]
MapSeq(f, items) == [i \in 1..Len(items) |-> f[items[i]]]

\* the condition of the loop of _process_posts:
\*   cleaned_post and self._is_valid_content(cleaned_post.get('content', ''))
post_passes(cleaned_post) ==
    cleaned_post # NoItem /\ is_valid_content(Get(cleaned_post, "content", <<>>))

\* _clean_post and the condition, computed once for each post
cleaned_post_of == [post \in RawPosts \cup MorePosts |-> clean_post(post)]
post_passes_of == [post \in RawPosts \cup MorePosts |-> post_passes(cleaned_post_of[post])]

\* the posts the loop appends, before the sort
kept_posts(posts) ==
    MapSeq(cleaned_post_of, SelectSeq(posts, LAMBDA post : post_passes_of[post]))

created_keys(items) == [i \in 1..Len(items) |-> Get(items[i], "created_utc", 0)]

\* items.sort(key=lambda x: x.get('created_utc', 0), reverse=True)
sort_by_created_utc(items) == sort_desc(items, created_keys(items))

process_posts_raises(posts) == sort_raises(created_keys(kept_posts(posts)))

process_posts(posts) == sort_by_created_utc(kept_posts(posts))

comment_passes(cleaned_comment) ==
    cleaned_comment # NoItem /\ is_valid_content(Get(cleaned_comment, "content", <<>>))

cleaned_comment_of == [comment \in RawComments \cup MoreComments |-> clean_comment(comment)]
comment_passes_of == [comment \in RawComments \cup MoreComments |-> comment_passes(cleaned_comment_of[comment])]

kept_comments(comments) ==
    MapSeq(cleaned_comment_of,
           SelectSeq(comments, LAMBDA comment : comment_passes_of[comment]))

process_comments_raises(comments) == sort_raises(created_keys(kept_comments(comments)))

process_comments(comments) == sort_by_created_utc(kept_comments(comments))

\* process_subreddits with the names put in lower case
process_subreddits_lowered(subreddits) ==
    LET named == SelectSeq(subreddits, LAMBDA subreddit : subreddit # <<>>)
    IN  [i \in 1..Len(named) |->
            [name |-> lower(named[i]),
             category |-> categorize_subreddit(named[i]),
             description |-> get_subreddit_description(named[i])]]

process_subreddits(subreddits) ==
    LET named == SelectSeq(subreddits, LAMBDA subreddit : subreddit # <<>>)
    IN  [i \in 1..Len(named) |->
            [name |-> named[i],
             category |-> categorize_subreddit(named[i]),
             description |-> get_subreddit_description(named[i])]]

-----------------------------------------------------------------------------
(* _generate_statistics                                                    *)

\* top_subreddits keeps the first 10 entries
TopSubreddits == 10

Take(s, n) == SubSeq(s, 1, IF Len(s) < n THEN Len(s) ELSE n)

RECURSIVE Sum(_)
Sum(xs) == IF xs = <<>> THEN 0 ELSE Head(xs) + Sum(Tail(xs))

\* A quotient of the code is kept exact, as numerator and denominator; the
\* 0 that stands for the mean of nothing is 0/1.
Quotient(n, d) == [num |-> n, den |-> d]
Zero == Quotient(0, 1)

\* the elements of a set of numbers, in increasing order
Ascending(S) ==
    [p \in 1..Cardinality(S) |->
        CHOOSE i \in S : Cardinality({j \in S : j < i}) = p - 1]

\* subreddit_activity: a dict keeps its keys in the order of their first
\* insertion; the entry of a tag is <<tag, count>>
\* subreddit_activity with the subreddits in the reverse of the order in which
\* they are first met
subreddit_activity_reversed(items) ==
    LET tag(i) == Get(items[i], "subreddit", <<>>)
        first == Ascending({i \in 1..Len(items) : \A j \in 1..(i - 1) : tag(j) # tag(i)})
    IN  [k \in 1..Len(first) |->
            <<tag(first[Len(first) + 1 - k]),
              Cardinality({j \in 1..Len(items) : tag(j) = tag(first[Len(first) + 1 - k])})>>]

\* subreddit_activity that notes a subreddit without counting its items
subreddit_activity_presence(items) ==
    LET tag(i) == Get(items[i], "subreddit", <<>>)
        first == Ascending({i \in 1..Len(items) : \A j \in 1..(i - 1) : tag(j) # tag(i)})
    IN  [k \in 1..Len(first) |-> <<tag(first[k]), 1>>]

subreddit_activity(items) ==
    LET tag(i) == Get(items[i], "subreddit", <<>>)
        first == Ascending({i \in 1..Len(items) : \A j \in 1..(i - 1) : tag(j) # tag(i)})
    IN  [k \in 1..Len(first) |->
            <<tag(first[k]),
              Cardinality({j \in 1..Len(items) : tag(j) = tag(first[k])})>>]

\* calculate_average_content_length without the "if count > 0" of the return
calculate_average_content_length_unguarded(items) ==
    LET contents == [i \in 1..Len(items) |-> Get(items[i], "content", <<>>)]
        counted == SelectSeq(contents, LAMBDA content : ~Falsy(content))
        total_length == Sum([i \in 1..Len(counted) |-> Len(counted[i])])
    IN  Quotient(total_length, Len(counted))

calculate_average_content_length(items) ==
    LET contents == [i \in 1..Len(items) |-> Get(items[i], "content", <<>>)]
        counted == SelectSeq(contents, LAMBDA content : ~Falsy(content))
        total_length == Sum([i \in 1..Len(counted) |-> Len(counted[i])])
    IN  IF Len(counted) > 0 THEN Quotient(total_length, Len(counted)) ELSE Zero

\* generate_statistics with every subreddit listed
generate_statistics_untruncated(data) ==
    LET posts == Get(data, "posts", <<>>)
        comments == Get(data, "comments", <<>>)
        post_scores == [i \in 1..Len(posts) |-> Get(posts[i], "score", 0)]
        comment_scores == [i \in 1..Len(comments) |-> Get(comments[i], "score", 0)]
        activity == subreddit_activity(posts \o comments)
        top_subreddits ==
            sort_desc(activity, [i \in 1..Len(activity) |-> activity[i][2]])
    IN  [total_posts |-> Len(posts),
         total_comments |-> Len(comments),
         average_post_score |->
             IF post_scores # <<>>
             THEN Quotient(Sum(post_scores), Len(post_scores)) ELSE Zero,
         average_comment_score |->
             IF comment_scores # <<>>
             THEN Quotient(Sum(comment_scores), Len(comment_scores)) ELSE Zero,
         top_subreddits |-> top_subreddits,
         most_active_subreddit |->
             IF top_subreddits # <<>> THEN top_subreddits[1][1] ELSE None,
         subreddit_diversity |-> Len(activity),
         content_length_avg |-> calculate_average_content_length(posts \o comments)]

\* _generate_statistics
generate_statistics(data) ==
    LET posts == Get(data, "posts", <<>>)
        comments == Get(data, "comments", <<>>)
        post_scores == [i \in 1..Len(posts) |-> Get(posts[i], "score", 0)]
        comment_scores == [i \in 1..Len(comments) |-> Get(comments[i], "score", 0)]
        activity == subreddit_activity(posts \o comments)
        top_subreddits ==
            Take(sort_desc(activity, [i \in 1..Len(activity) |-> activity[i][2]]),
                 TopSubreddits)
    IN  [total_posts |-> Len(posts),
         total_comments |-> Len(comments),
         average_post_score |->
             IF post_scores # <<>>
             THEN Quotient(Sum(post_scores), Len(post_scores)) ELSE Zero,
         average_comment_score |->
             IF comment_scores # <<>>
             THEN Quotient(Sum(comment_scores), Len(comment_scores)) ELSE Zero,
         top_subreddits |-> top_subreddits,
         most_active_subreddit |->
             IF top_subreddits # <<>> THEN top_subreddits[1][1] ELSE None,
         subreddit_diversity |-> Len(activity),
         content_length_avg |-> calculate_average_content_length(posts \o comments)]

-----------------------------------------------------------------------------
(* process_user_data                                                       *)

\* the sorts of _process_posts and _process_comments are not guarded: a
\* TypeError they raise leaves process_user_data
process_user_data_raises(data) ==
    \/ process_posts_raises(Get(data, "posts", <<>>))
    \/ process_comments_raises(Get(data, "comments", <<>>))

\* processed_data['statistics'] = self._generate_statistics(processed_data)
with_statistics(processed) ==
    [username |-> processed.username,
     account_age_days |-> processed.account_age_days,
     karma |-> processed.karma,
     posts |-> processed.posts,
     comments |-> processed.comments,
     subreddits |-> processed.subreddits,
     statistics |-> generate_statistics(processed)]

process_user_data(data) ==
    with_statistics(
        [username |-> Get(data, "username", None),
         account_age_days |-> Get(data, "account_age_days", 0),
         karma |-> Get(data, "karma", <<>>),
         posts |-> process_posts(Get(data, "posts", <<>>)),
         comments |-> process_comments(Get(data, "comments", <<>>)),
         subreddits |-> process_subreddits(Get(data, "subreddits", <<>>))])

-----------------------------------------------------------------------------
(* scrape_user_profile: the tags of the fetch result                       *)

\* the code points of the characters of a tag, in increasing order
CodeOrder ==
    <<"0","1","2","3","4","5","6","7","8","9">> \o UpperSeq \o <<"_">> \o LowerSeq

CharCode(c) == CHOOSE i \in 1..Len(CodeOrder) : CodeOrder[i] = c

\* a < b for two strings
StrLess(a, b) ==
    \E k \in 1..(Len(b)) :
        /\ \A i \in 1..(k - 1) : i <= Len(a) /\ a[i] = b[i]
        /\ \/ k = Len(a) + 1
           \/ k <= Len(a) /\ CharCode(a[k]) < CharCode(b[k])

\* sorted(list(S)) for a set of strings
sorted(S) ==
    [p \in 1..Cardinality(S) |->
        CHOOSE x \in S : Cardinality({y \in S : StrLess(y, x)}) = p - 1]

\* subreddits_set: the non-empty tags of the fetched posts and comments
scraped_subreddits(posts, comments) ==
    LET fetched == posts \o comments
        tags == {Get(fetched[i], "subreddit", <<>>) :
                    i \in {j \in 1..Len(fetched) : IsRecord(fetched[j])}}
    IN  sorted(tags \ {<<>>})

-----------------------------------------------------------------------------
(* The fetch results process_user_data is run on                           *)

\* at most this many fetched items, posts and comments together
MaxItems == 3

UserData(posts, comments) ==
    [username |-> "kojied",
     account_age_days |-> 365,
     karma |-> [post |-> 12, comment |-> 34],
     posts |-> posts,
     comments |-> comments,
     subreddits |-> scraped_subreddits(posts, comments)]

-----------------------------------------------------------------------------
(* The texts the pure text functions are run on                            *)

MaxPieces == 3
MaxUnits == 3
MaxWords == 3

\* the concatenation of a sequence of texts, put together half by half
RECURSIVE Flatten(_)
Flatten(ps) ==
    IF ps = <<>> THEN <<>>
    ELSE IF Len(ps) = 1 THEN ps[1]
         ELSE Flatten(SubSeq(ps, 1, Len(ps) \div 2))
                  \o Flatten(SubSeq(ps, Len(ps) \div 2 + 1, Len(ps)))

\* fragments of markup, mentions, URLs and entities, put together in any
\* order: unterminated, nested and adjacent markers included
Pieces ==
    {<<"*","*">>,
     <<"*">>,
     <<"~","~">>,
     <<"a">>,
     <<" ">>,
     <<"\n">>,
     <<"h","t","t","p",":","/","/","x">>,
     <<"/","u","/">>,
     <<"&","a","m","p",";">>,
     <<"g","t",";">>}

\* whole words, URLs, mentions and emphasised words, put together with one
\* blank between them
Units ==
    {<<"c","h","e","c","k">>,
     <<"o","u","t">>,
     <<"h","t","t","p",":","/","/","x",".","c","o">>,
     <<"h","t","t","p","s",":","/","/","a",".","b","/","c","?","d","=","1">>,
     <<"/","u","/","b","o","b">>,
     <<"/","r","/","p","y","t","h","o","n">>,
     <<"*","*","t","h","i","s","*","*">>,
     <<"*","i","t","*">>,
     <<"~","~","n","o","~","~">>}

\* words of 1, 3 and 6 characters: with one blank between them they give the
\* texts of 9, 10 and 11 characters with two, three and more tokens
Words ==
    {<<"a">>,
     <<"b","b","b">>,
     <<"c","c","c","c","c","c">>}

SentinelTexts ==
    {<<"[","d","e","l","e","t","e","d","]">>,
     <<"[","R","e","m","o","v","e","d","]">>,
     <<"D","E","L","E","T","E","D">>,
     <<"r","e","m","o","v","e","d">>,
     <<"[","d","e","l","e","t","e","d","]"," ">>,
     <<"d","e","l","e","t","e","d"," ","x">>}

\* "check **this** out http://x.co /u/bob"
Example ==
    <<"c","h","e","c","k"," ","*","*","t","h","i","s","*","*"," ","o","u","t"," ",
      "h","t","t","p",":","/","/","x",".","c","o"," ","/","u","/","b","o","b">>

PieceTexts == {Flatten(ps) : ps \in SeqsUpTo(Pieces, MaxPieces)}
UnitTexts == {join(<<" ">>, us) : us \in SeqsUpTo(Units, MaxUnits)} \cup {Example}
WordTexts == {join(<<" ">>, ws) : ws \in SeqsUpTo(Words, MaxWords)}

TextInputs == PieceTexts \cup UnitTexts \cup WordTexts \cup SentinelTexts

-----------------------------------------------------------------------------
(* The pure text functions, each applied to a text                         *)

\* _extract_citations is not called on its own
NoCite ==
    /\ analysis = ""
    /\ top_citations = <<>>

\* main is not running: the functions are called directly
NoMain ==
    /\ url = <<>>
    /\ ran = <<>>
    /\ exit_status = "running"
    /\ output_file = <<>>
    /\ summary = <<>>

\* _categorize_subreddit is not called on its own
NoCategory ==
    /\ subreddit_name = <<>>
    /\ category = ""

\* no listing is read on its own
NoFetch ==
    /\ submissions = <<>>
    /\ user_comments = <<>>
    /\ max_posts = 0
    /\ max_comments = 0
    /\ scraped_posts = <<>>
    /\ scraped_comments = <<>>

\* validate_url and extract_username are not called on their own
NoUrl ==
    /\ url_ok = FALSE
    /\ extracted = <<>>

\* no wrapped function is called
NoRetry ==
    /\ func_outcomes = <<>>
    /\ attempts = 0
    /\ delays = <<>>
    /\ wrapper_result = "running"

\* no function is called on its own
NoUnit ==
    /\ NoCategory
    /\ NoFetch
    /\ NoUrl
    /\ NoRetry

\* no PersonaGenerator has run
NoPersona ==
    /\ include_citations = TRUE
    /\ evidence = <<>>
    /\ persona_sections = <<>>
    /\ calls = <<>>
    /\ persona = <<>>

TextInit ==
    /\ pc = "text"
    /\ text \in TextInputs
    /\ cleaned = <<>>
    /\ recleaned = <<>>
    /\ valid = FALSE
    /\ user_data = None
    /\ processed_data = None
    /\ NoPersona
    /\ NoCite
    /\ NoMain
    /\ NoUnit

CallCleanText ==
    /\ pc = "text"
    /\ cleaned' = clean_text(text)
    /\ pc' = "cleaned"
    /\ UNCHANGED <<text, recleaned, valid, aggVars, personaVars, citeVars, mainVars, unitVars>>

CallCleanTextAgain ==
    /\ pc = "cleaned"
    /\ recleaned' = clean_text(cleaned)
    /\ pc' = "recleaned"
    /\ UNCHANGED <<text, cleaned, valid, aggVars, personaVars, citeVars, mainVars, unitVars>>

CallIsValidContent ==
    /\ pc = "text"
    /\ valid' = is_valid_content(text)
    /\ pc' = "validated"
    /\ UNCHANGED <<text, cleaned, recleaned, aggVars, personaVars, citeVars, mainVars, unitVars>>

TextNext == CallCleanText \/ CallCleanTextAgain \/ CallIsValidContent

SpecText == TextInit /\ [][TextNext]_vars

-----------------------------------------------------------------------------
(* process_user_data, run on a fetch result                                *)

AggInit ==
    /\ pc = "scraped"
    /\ \E np \in 0..MaxItems : \E nc \in 0..(MaxItems - np) :
           \E posts \in [1..np -> RawPosts] : \E comments \in [1..nc -> RawComments] :
               user_data = UserData(posts, comments)
    /\ processed_data = None
    /\ text = <<>>
    /\ cleaned = <<>>
    /\ recleaned = <<>>
    /\ valid = FALSE
    /\ NoPersona
    /\ NoCite
    /\ NoMain
    /\ NoUnit

\* process_user_data returns the processed data
ProcessUserData ==
    /\ pc = "scraped"
    /\ ~process_user_data_raises(user_data)
    /\ processed_data' = process_user_data(user_data)
    /\ pc' = "processed"
    /\ UNCHANGED <<user_data, textVars, personaVars, citeVars, mainVars, unitVars>>

\* process_user_data raises and returns nothing
ProcessUserDataRaises ==
    /\ pc = "scraped"
    /\ process_user_data_raises(user_data)
    /\ pc' = "process_raised"
    /\ UNCHANGED <<user_data, processed_data, textVars, personaVars, citeVars, mainVars, unitVars>>

AggNext == ProcessUserData \/ ProcessUserDataRaises

SpecAgg == AggInit /\ [][AggNext]_vars

-----------------------------------------------------------------------------
(* _generate_statistics, run on processed data of many subreddits          *)

MaxTags == 12

\* the name of the i-th subreddit of a busy profile
Tag(i) == <<"r", LowerSeq[i]>>

StatPost(i, subreddit) ==
    [id |-> "post", title |-> TitleApp, content |-> BodyApps, subreddit |-> subreddit,
     created_utc |-> 1000 - i, score |-> i, url |-> "", type |-> "post"]

StatComment(i, subreddit) ==
    [id |-> "comment", content |-> BodyCommunity, subreddit |-> subreddit,
     created_utc |-> 1000 - i, score |-> i, url |-> "",
     parent_post_title |-> None, type |-> "comment"]

\* processed posts whose subreddits go round the MaxTags names from `start`
\* in steps of `step`, and comments whose subreddits follow each other
StatPosts(n, start, step) ==
    [i \in 1..n |-> StatPost(i, Tag(((start + (i - 1) * step) % MaxTags) + 1))]

StatComments(n, start) ==
    [i \in 1..n |-> StatComment(i, Tag(((start + i - 1) % MaxTags) + 1))]

StatsInit ==
    /\ pc = "statistics"
    /\ user_data = None
    /\ \E n \in 0..MaxTags, start \in {0, 5}, step \in 0..3 :
       \E m \in 0..3, cstart \in {0, 2, MaxTags - 1} :
           processed_data =
               [username |-> "kojied",
                account_age_days |-> 365,
                karma |-> [post |-> 12, comment |-> 34],
                posts |-> StatPosts(n, start, step),
                comments |-> StatComments(m, cstart),
                subreddits |-> <<>>]
    /\ text = <<>>
    /\ cleaned = <<>>
    /\ recleaned = <<>>
    /\ valid = FALSE
    /\ NoPersona
    /\ NoCite
    /\ NoMain
    /\ NoUnit

\* processed_data['statistics'] = self._generate_statistics(processed_data)
GenerateStatistics ==
    /\ pc = "statistics"
    /\ processed_data' = with_statistics(processed_data)
    /\ pc' = "statistics_done"
    /\ UNCHANGED <<user_data, textVars, personaVars, citeVars, mainVars, unitVars>>

StatsNext ==
    \/ GenerateStatistics

SpecStats == StatsInit /\ [][StatsNext]_vars

-----------------------------------------------------------------------------
(* _categorize_subreddit, called on a name                                 *)

\* pieces of subreddit names, in several letter cases: keywords of several
\* categories, pieces that make a keyword together ("sm" + "art",
\* "Ask" + "reddit") and one that belongs to none
NameParts ==
    {<<"p","y","t","h","o","n">>,
     <<"G","a","m","i","n","g">>,
     <<"N","E","W","S">>,
     <<"a","r","t">>,
     <<"J","o","b","s">>,
     <<"s","p","o","r","t","s">>,
     <<"F","o","o","d">>,
     <<"A","s","k">>,
     <<"r","e","d","d","i","t">>,
     <<"g","a","m","e","s">>,
     <<"s","m">>,
     <<"x">>}

MaxNameParts == 2

\* the names _categorize_subreddit is called on: up to MaxNameParts pieces
SubredditNames == {Flatten(ps) : ps \in SeqsUpTo(NameParts, MaxNameParts)}

CategoryInit ==
    /\ pc = "categorize"
    /\ subreddit_name \in SubredditNames
    /\ category = ""
    /\ NoFetch
    /\ NoUrl
    /\ NoRetry
    /\ user_data = None
    /\ processed_data = None
    /\ text = <<>>
    /\ cleaned = <<>>
    /\ recleaned = <<>>
    /\ valid = FALSE
    /\ NoPersona
    /\ NoCite
    /\ NoMain

CallCategorizeSubreddit ==
    /\ pc = "categorize"
    /\ category' = categorize_subreddit(subreddit_name)
    /\ pc' = "categorized"
    /\ UNCHANGED <<subreddit_name, fetchVars, urlVars, retryVars, textVars, aggVars,
                   personaVars, citeVars, mainVars>>

CategoryNext ==
    \/ CallCategorizeSubreddit

SpecCategory == CategoryInit /\ [][CategoryNext]_vars

-----------------------------------------------------------------------------
(* _scrape_user_posts and _scrape_user_comments, run on listings            *)

MaxListing == 3

Deleted == <<"[", "d", "e", "l", "e", "t", "e", "d", "]">>
Removed == <<"[", "r", "e", "m", "o", "v", "e", "d", "]">>
Hello == <<"h", "e", "l", "l", "o">>

\* how reading an item goes: every attribute is read, or reading an
\* attribute of the item raises, or only comment.submission.title raises
PostReads == {"ok", "raises"}
CommentReads == {"ok", "raises", "title_raises"}

\* a listed item: its body and how reading it goes
PostKinds == {[body |-> Hello, reads |-> r] : r \in PostReads}
CommentKinds ==
    {[body |-> Hello, reads |-> r] : r \in CommentReads}
    \cup {[body |-> b, reads |-> "ok"] : b \in {Deleted, Removed}}

\* the listings of n items, the i-th with the id i.  A listing is what the
\* iterator delivers until it is exhausted or raises: both end the loop
\* with the items appended so far.
Listed(kinds, n) ==
    {[i \in 1..n |-> [id |-> i, body |-> k[i].body, reads |-> k[i].reads]] :
        k \in [1..n -> kinds]}

PostListings == UNION {Listed(PostKinds, n) : n \in 0..MaxListing}
CommentListings == UNION {Listed(CommentKinds, n) : n \in 0..MaxListing}

\* the dictionary made of a post
post_data(post) ==
    [id |-> post.id, content |-> post.body, type |-> "post"]

\* the dictionary made of a comment
comment_data(comment) ==
    [id |-> comment.id, content |-> comment.body, type |-> "comment",
     parent_post_title |-> IF comment.reads = "title_raises" THEN None ELSE <<"t">>]

\* limit=: the listing delivers at most that many items
new(listing, limit) == Take(listing, limit)

PostKept(post) == post.reads # "raises"

scrape_user_posts(listing, limit) ==
    LET kept == SelectSeq(new(listing, limit), PostKept)
    IN  [i \in 1..Len(kept) |-> post_data(kept[i])]

CommentKept(comment) ==
    /\ comment.reads # "raises"
    /\ comment.body \notin {Deleted, Removed}

\* the loop that leaves at the first comment that raises
scrape_user_comments_break(listing, limit) ==
    LET delivered == new(listing, limit)
        before == {n \in 0..Len(delivered) :
                      \A i \in 1..n : delivered[i].reads # "raises"}
        stop == CHOOSE n \in before : \A m \in before : m <= n
        kept == SelectSeq(SubSeq(delivered, 1, stop), CommentKept)
    IN  [i \in 1..Len(kept) |-> comment_data(kept[i])]

scrape_user_comments(listing, limit) ==
    LET kept == SelectSeq(new(listing, limit), CommentKept)
    IN  [i \in 1..Len(kept) |-> comment_data(kept[i])]

SamplePosts == [i \in 1..2 |-> [id |-> i, body |-> Hello, reads |-> "ok"]]
SampleComments == [i \in 1..2 |-> [id |-> i, body |-> Hello, reads |-> "ok"]]

FetchInit ==
    /\ pc = "scrape_posts"
    /\ \/ /\ submissions \in PostListings
          /\ max_posts \in 0..MaxListing
          /\ user_comments = SampleComments
          /\ max_comments = MaxListing
       \/ /\ submissions = SamplePosts
          /\ max_posts = MaxListing
          /\ user_comments \in CommentListings
          /\ max_comments \in 0..MaxListing
    /\ scraped_posts = <<>>
    /\ scraped_comments = <<>>
    /\ NoCategory
    /\ NoUrl
    /\ NoRetry
    /\ user_data = None
    /\ processed_data = None
    /\ text = <<>>
    /\ cleaned = <<>>
    /\ recleaned = <<>>
    /\ valid = FALSE
    /\ NoPersona
    /\ NoCite
    /\ NoMain

ScrapeUserPosts ==
    /\ pc = "scrape_posts"
    /\ scraped_posts' = scrape_user_posts(submissions, max_posts)
    /\ pc' = "scrape_comments"
    /\ UNCHANGED <<submissions, user_comments, max_posts, max_comments, scraped_comments,
                   categoryVars, urlVars, retryVars, textVars, aggVars, personaVars,
                   citeVars, mainVars>>

ScrapeUserComments ==
    /\ pc = "scrape_comments"
    /\ scraped_comments' = scrape_user_comments(user_comments, max_comments)
    /\ pc' = "scraped"
    /\ UNCHANGED <<submissions, user_comments, max_posts, max_comments, scraped_posts,
                   categoryVars, urlVars, retryVars, textVars, aggVars, personaVars,
                   citeVars, mainVars>>

FetchNext ==
    \/ ScrapeUserPosts
    \/ ScrapeUserComments

SpecFetch == FetchInit /\ [][FetchNext]_vars

-----------------------------------------------------------------------------
(* Properties of the text functions                                        *)

\* the number of maximal runs of non-blank characters of t
TokenCount(t) ==
    Cardinality({i \in 1..Len(t) :
                    t[i] \notin Whitespace /\ (i = 1 \/ t[i-1] \in Whitespace)})

\* C5: _is_valid_content returns False exactly when the text is empty, or is
\* shorter than min_content_length, or is, in lower case, one of the removal
\* sentinels, or has fewer than 3 blank-separated tokens; True otherwise.
C5_FilterRejectsExactly ==
    pc = "validated" =>
        (valid = FALSE <=>
            \/ text = <<>>
            \/ Len(text) < min_content_length
            \/ lower(text) \in RemovalSentinels
            \/ TokenCount(text) < 3)

\* a text of exactly min_content_length characters and three tokens is accepted
C5_Witness ==
    /\ pc = "validated"
    /\ valid = TRUE
    /\ Len(text) = min_content_length
    /\ TokenCount(text) = 3

\* C6: _clean_text(_clean_text(x)) = _clean_text(x) for every text x.
C6_Idempotent ==
    pc = "recleaned" => recleaned = cleaned

-----------------------------------------------------------------------------
(* Properties of the aggregation                                           *)

Range(f) == {f[i] : i \in DOMAIN f}

\* the fetched items that are dicts whose title and body are text or absent
WellFormed(item) ==
    /\ IsRecord(item)
    /\ ~clean_text_raises(Get(item, "title", <<>>))
    /\ ~clean_text_raises(Get(item, "content", <<>>))

Ids(items) == {Get(items[i], "id", "") : i \in 1..Len(items)}

SortedDescending(items) ==
    \A i, j \in 1..Len(items) :
        i < j => items[i].created_utc >= items[j].created_utc

\* the items of `items` with timestamp t, in their order
WithTimestamp(items, t) == SelectSeq(items, LAMBDA item : item.created_utc = t)

\* the items with one timestamp are in the order the loop appended them in
TiesInInputOrder(sorted_items, appended) ==
    \A t \in {appended[i].created_utc : i \in 1..Len(appended)} :
        WithTimestamp(sorted_items, t) = WithTimestamp(appended, t)

\* an item fetched without created_utc has the timestamp 0 in the result
AbsentTimestampIsZero(sorted_items, fetched) ==
    \A i \in 1..Len(sorted_items) :
        (\E k \in 1..Len(fetched) :
            /\ WellFormed(fetched[k])
            /\ fetched[k].id = sorted_items[i].id
            /\ "created_utc" \notin DOMAIN fetched[k])
        => sorted_items[i].created_utc = 0

\* C4: the posts and the comments process_user_data returns are each sorted
\* by created_utc descending, an item without a timestamp sorting as 0, and
\* items with equal created_utc keep the order of the raw input.
C4_SortedStable ==
    pc = "processed" =>
        /\ SortedDescending(processed_data.posts)
        /\ SortedDescending(processed_data.comments)
        /\ TiesInInputOrder(processed_data.posts, kept_posts(user_data.posts))
        /\ TiesInInputOrder(processed_data.comments, kept_comments(user_data.comments))
        /\ AbsentTimestampIsZero(processed_data.posts, user_data.posts)

\* fetched as p5 (no created_utc), p2, p1 (both 200): returned as p2, p1, p5
C4_Witness ==
    /\ pc = "processed"
    /\ Len(user_data.posts) = 3
    /\ Get(user_data.posts[1], "id", "") = "p5"
    /\ Len(processed_data.posts) = 3
    /\ processed_data.posts[1].id = "p2"
    /\ processed_data.posts[2].id = "p1"
    /\ processed_data.posts[3].id = "p5"

C9_PerItemIsolation ==
    /\ pc # "process_raised"
    /\ pc = "processed" =>
          /\ \A k \in 1..Len(user_data.posts) :
                ~WellFormed(user_data.posts[k]) =>
                    (IsRecord(user_data.posts[k]) =>
                        user_data.posts[k].id \notin Ids(processed_data.posts))
          /\ Len(processed_data.posts) = Len(kept_posts(user_data.posts))
          /\ Len(processed_data.comments) = Len(kept_comments(user_data.comments))

\* the tags of the posts and comments of the corpus
SurvivorTags(data) ==
    {data.posts[i].subreddit : i \in 1..Len(data.posts)}
        \cup {data.comments[i].subreddit : i \in 1..Len(data.comments)}

\* the non-empty tags of the fetched posts and comments
FetchedTags(data) ==
    {item.subreddit : item \in {x \in Range(data.posts) \cup Range(data.comments) :
                                  IsRecord(x)}} \ {<<>>}

ListedTags(data) == {data.subreddits[i].name : i \in 1..Len(data.subreddits)}

\* C10 as stated: the tag list of the corpus is exactly the union of the tags
\* of the surviving posts and comments, each with its category.
C10_TagsOfSurvivors ==
    pc = "processed" =>
        /\ ListedTags(processed_data) = SurvivorTags(processed_data)
        /\ \A i \in 1..Len(processed_data.subreddits) :
              processed_data.subreddits[i].category
                  = categorize_subreddit(processed_data.subreddits[i].name)

\* C10 as amended: the tag list of the corpus is exactly the tag list of the
\* fetch result, the non-empty tags of all fetched posts and comments whether
\* they survive the filter or not, each with its category; the tags of the
\* survivors are among them.
C10_TagsOfFetch ==
    pc = "processed" =>
        /\ ListedTags(processed_data) = FetchedTags(user_data)
        /\ SurvivorTags(processed_data) \subseteq ListedTags(processed_data)
        /\ \A i \in 1..Len(processed_data.subreddits) :
              processed_data.subreddits[i].category
                  = categorize_subreddit(processed_data.subreddits[i].name)

\* "news" is carried by rejected items only and is in the list, beside the
\* tag of a survivor
C10_Witness ==
    /\ pc = "processed"
    /\ TagNews \in ListedTags(processed_data)
    /\ TagNews \notin SurvivorTags(processed_data)
    /\ TagPython \in SurvivorTags(processed_data)
    /\ \E i \in 1..Len(processed_data.subreddits) :
          /\ processed_data.subreddits[i].name = TagPython
          /\ processed_data.subreddits[i].category = "technology"

-----------------------------------------------------------------------------
(* PersonaGenerator                                                        *)

\* content[:3000], the part of the evidence text put in a prompt
PromptBudget == 3000
\* all_content[:5], the sources kept as citations
MaxCitations == 5
\* subreddits[:10], the subreddits listed in the basic information
ShownSubreddits == 10
\* citation['content'][:100], the part of a body shown for a source
CitationPreview == 100

\* _extract_content_for_analysis: the lines of one post
post_parts(post) ==
    (IF ~Falsy(Get(post, "title", <<>>))
     THEN <<<<"P","O","S","T"," ","T","I","T","L","E",":"," ">> \o post.title>>
     ELSE <<>>)
    \o (IF ~Falsy(Get(post, "content", <<>>)) /\ Len(post.content) > min_content_length
        THEN <<<<"P","O","S","T"," ","C","O","N","T","E","N","T",":"," ">> \o post.content>>
        ELSE <<>>)

\* the lines of one comment, with a body of min_content_length let through
comment_parts_ge(comment) ==
    IF ~Falsy(Get(comment, "content", <<>>)) /\ Len(comment.content) >= min_content_length
    THEN <<<<"C","O","M","M","E","N","T",":"," ">> \o comment.content>>
    ELSE <<>>

\* _extract_content_for_analysis: the lines of one comment
comment_parts(comment) ==
    IF ~Falsy(Get(comment, "content", <<>>)) /\ Len(comment.content) > min_content_length
    THEN <<<<"C","O","M","M","E","N","T",":"," ">> \o comment.content>>
    ELSE <<>>

\* _extract_content_for_analysis: content_parts after the two loops
content_parts(data) ==
    LET posts == Get(data, "posts", <<>>)
        comments == Get(data, "comments", <<>>)
    IN  Flatten([i \in 1..Len(posts) |-> post_parts(posts[i])])
            \o Flatten([i \in 1..Len(comments) |-> comment_parts(comments[i])])

\* extract_content_for_analysis with a line for the user before the items
extract_content_for_analysis_header(data) ==
    join(<<"\n","\n">>, <<<<"U","S","E","R">>>> \o content_parts(data))

extract_content_for_analysis(data) == join(<<"\n","\n">>, content_parts(data))

\* str(sub) of a subreddit dict
Str(sub) == [str |-> sub]

\* The subreddits of processed data are dicts (process_subreddits), so each
\* becomes its str().
generate_basic_info(data) ==
    LET subreddits == Get(data, "subreddits", <<>>)
    IN  [username |-> Get(data, "username", "Unknown"),
         account_age_days |-> Get(data, "account_age_days", 0),
         total_posts |-> Len(Get(data, "posts", <<>>)),
         total_comments |-> Len(Get(data, "comments", <<>>)),
         post_karma |-> Get(Get(data, "karma", <<>>), "post", 0),
         comment_karma |-> Get(Get(data, "karma", <<>>), "comment", 0),
         active_subreddits |-> [i \in 1..Len(subreddits) |-> Str(subreddits[i])]]

\* the posts, then the comments, as sources, with the first MaxCitations + 1
\* of them returned
extract_citations_one_more(analysis_text, data) ==
    LET posts == Get(data, "posts", <<>>)
        comments == Get(data, "comments", <<>>)
        all_content ==
            [i \in 1..Len(posts) |->
                [type |-> "post",
                 content |-> Get(posts[i], "content", <<>>),
                 title |-> Get(posts[i], "title", <<>>),
                 url |-> Get(posts[i], "url", ""),
                 subreddit |-> Get(posts[i], "subreddit", <<>>)]]
            \o [i \in 1..Len(comments) |->
                [type |-> "comment",
                 content |-> Get(comments[i], "content", <<>>),
                 url |-> Get(comments[i], "url", ""),
                 subreddit |-> Get(comments[i], "subreddit", <<>>)]]
    IN  Take(all_content, MaxCitations + 1)

\* the comments, then the posts, as sources
extract_citations_comments_first(analysis_text, data) ==
    LET posts == Get(data, "posts", <<>>)
        comments == Get(data, "comments", <<>>)
        all_content ==
            [i \in 1..Len(comments) |->
                [type |-> "comment",
                 content |-> Get(comments[i], "content", <<>>),
                 url |-> Get(comments[i], "url", ""),
                 subreddit |-> Get(comments[i], "subreddit", <<>>)]]
            \o [i \in 1..Len(posts) |->
                [type |-> "post",
                 content |-> Get(posts[i], "content", <<>>),
                 title |-> Get(posts[i], "title", <<>>),
                 url |-> Get(posts[i], "url", ""),
                 subreddit |-> Get(posts[i], "subreddit", <<>>)]]
    IN  Take(all_content, MaxCitations)

\* the posts, then the comments, as sources; the first MaxCitations of them.
\* The analysis text is a parameter the method does not read.
extract_citations(analysis_text, data) ==
    LET posts == Get(data, "posts", <<>>)
        comments == Get(data, "comments", <<>>)
        all_content ==
            [i \in 1..Len(posts) |->
                [type |-> "post",
                 content |-> Get(posts[i], "content", <<>>),
                 title |-> Get(posts[i], "title", <<>>),
                 url |-> Get(posts[i], "url", ""),
                 subreddit |-> Get(posts[i], "subreddit", <<>>)]]
            \o [i \in 1..Len(comments) |->
                [type |-> "comment",
                 content |-> Get(comments[i], "content", <<>>),
                 url |-> Get(comments[i], "url", ""),
                 subreddit |-> Get(comments[i], "subreddit", <<>>)]]
    IN  Take(all_content, MaxCitations)

\* the facets, in the order generate_persona analyses them
Facets ==
    <<"demographics", "personality", "interests", "behaviors", "motivations",
      "frustrations">>

\* the text each _analyze_* method returns from its except clause
Fallback ==
    [demographics |-> "Unable to analyze demographics",
     personality |-> "Unable to analyze personality",
     interests |-> "Unable to analyze interests",
     behaviors |-> "Unable to analyze behaviors",
     motivations |-> "Unable to analyze motivations",
     frustrations |-> "Unable to analyze frustrations"]

\* response.choices[0].message.content of the request made for a facet
Completion ==
    [demographics |-> "completion for demographics",
     personality |-> "completion for personality",
     interests |-> "completion for interests",
     behaviors |-> "completion for behaviors",
     motivations |-> "completion for motivations",
     frustrations |-> "completion for frustrations"]

\* openai.ChatCompletion.create returns a completion, or raises (the service
\* refuses the request, or rejects the API key), or returns no choice so
\* that choices[0] raises
BackendOutcomes == {"ok", "RateLimitError", "AuthenticationError", "IndexError"}

\* prompt with a longer head of the evidence text for the frustrations
prompt_frustrations_longer(facet, txt, data) ==
    IF facet = "interests"
    THEN LET subreddits_raw == Get(data, "subreddits", <<>>)
         IN  [content |-> Take(txt, PromptBudget),
              subreddits |->
                  IF subreddits_raw # <<>>
                  THEN join(<<",", " ">>,
                            [i \in 1..Len(subreddits_raw) |-> subreddits_raw[i].name])
                  ELSE <<"N","o","n","e">>]
    ELSE IF facet = "frustrations"
    THEN [content |-> Take(txt, PromptBudget + PromptBudget)]
    ELSE [content |-> Take(txt, PromptBudget)]

\* what is put in the prompt of a facet: the head of the evidence text and,
\* for the interests, the names of the subreddits
prompt(facet, txt, data) ==
    IF facet = "interests"
    THEN LET subreddits_raw == Get(data, "subreddits", <<>>)
         IN  [content |-> Take(txt, PromptBudget),
              subreddits |->
                  IF subreddits_raw # <<>>
                  THEN join(<<",", " ">>,
                            [i \in 1..Len(subreddits_raw) |-> subreddits_raw[i].name])
                  ELSE <<"N","o","n","e">>]
    ELSE [content |-> Take(txt, PromptBudget)]

\* analyze with the citations left in the section of a failed facet
analyze_keeps_citations(facet, outcome, data, cite) ==
    IF outcome = "ok"
    THEN [analysis |-> Completion[facet],
          citations |-> IF cite THEN extract_citations(Completion[facet], data) ELSE <<>>]
    ELSE [analysis |-> Fallback[facet],
          citations |-> IF cite THEN extract_citations(Completion[facet], data) ELSE <<>>]

\* the section an _analyze_* method returns: the try block, or the except
\* clause when the request raised
analyze(facet, outcome, data, cite) ==
    IF outcome = "ok"
    THEN [analysis |-> Completion[facet],
          citations |-> IF cite THEN extract_citations(Completion[facet], data) ELSE <<>>]
    ELSE [analysis |-> Fallback[facet], citations |-> <<>>]

\* str.upper() of the type of a source
upper_type(type) == IF type = "post" THEN "POST" ELSE "COMMENT"

\* The document is the sequence of its blocks: a heading between two rules,
\* a line, the basic information, the text of a section, a source.
Heading(title) == [heading |-> title]

\* the block under the heading of a facet
SectionBlock(sections, facet) == [analysis |-> sections[facet].analysis]

\* the three lines written for a source
CitationBlock(i, citation) ==
    [source |-> i,
     type |-> upper_type(citation.type),
     title |-> Get(citation, "title", Take(citation.content, CitationPreview)),
     url |-> Get(citation, "url", "N/A"),
     subreddit |-> Get(citation, "subreddit", "N/A")]

\* the appendix made of the sources of the last facet
CitationsAppendix_frustrations(sections) ==
    LET citations == Take(sections["frustrations"].citations, MaxCitations)
    IN  <<Heading("CITATIONS & SOURCES"),
          [line |-> "The following sources were used to generate this persona:"]>>
        \o [i \in 1..Len(citations) |-> CitationBlock(i, citations[i])]

\* the blocks appended when include_citations is set
CitationsAppendix(sections) ==
    LET citations == Take(sections["demographics"].citations, MaxCitations)
    IN  <<Heading("CITATIONS & SOURCES"),
          [line |-> "The following sources were used to generate this persona:"]>>
        \o [i \in 1..Len(citations) |-> CitationBlock(i, citations[i])]

\* format_persona with the sections of the last two facets exchanged
format_persona_swapped(sections, data, cite) ==
    LET basic_info == sections["basic_info"]
        subreddits == basic_info.active_subreddits
        subreddits_str == IF subreddits # <<>> THEN Take(subreddits, ShownSubreddits)
                          ELSE <<"None">>
    IN  <<[heading |-> "USER PERSONA", username |-> Get(data, "username", "Unknown")],
          [line |-> "Generated on"],
          [line |-> "Analysis based on",
           posts |-> Len(Get(data, "posts", <<>>)),
           comments |-> Len(Get(data, "comments", <<>>))],
          Heading("BASIC INFORMATION"),
          [basic_info |-> [basic_info EXCEPT !.active_subreddits = subreddits_str]],
          Heading("DEMOGRAPHICS"), SectionBlock(sections, "demographics"),
          Heading("PERSONALITY TRAITS"), SectionBlock(sections, "personality"),
          Heading("INTERESTS & HOBBIES"), SectionBlock(sections, "interests"),
          Heading("BEHAVIORS & HABITS"), SectionBlock(sections, "behaviors"),
          Heading("FRUSTRATIONS & PAIN POINTS"), SectionBlock(sections, "frustrations"),
          Heading("MOTIVATIONS & GOALS"), SectionBlock(sections, "motivations")>>
        \o (IF cite THEN CitationsAppendix(sections) ELSE <<>>)
        \o <<Heading("DISCLAIMER"),
             [line |-> "This persona is generated based on publicly available Reddit activity"],
             [line |-> "Generation completed at"]>>

\* _format_persona: the subreddits of the basic information are joined with
\* ", " (here: kept as the list of the joined items); the timestamp of the
\* two dated lines is left out.
format_persona(sections, data, cite) ==
    LET basic_info == sections["basic_info"]
        subreddits == basic_info.active_subreddits
        subreddits_str == IF subreddits # <<>> THEN Take(subreddits, ShownSubreddits)
                          ELSE <<"None">>
    IN  <<[heading |-> "USER PERSONA", username |-> Get(data, "username", "Unknown")],
          [line |-> "Generated on"],
          [line |-> "Analysis based on",
           posts |-> Len(Get(data, "posts", <<>>)),
           comments |-> Len(Get(data, "comments", <<>>))],
          Heading("BASIC INFORMATION"),
          [basic_info |-> [basic_info EXCEPT !.active_subreddits = subreddits_str]],
          Heading("DEMOGRAPHICS"), SectionBlock(sections, "demographics"),
          Heading("PERSONALITY TRAITS"), SectionBlock(sections, "personality"),
          Heading("INTERESTS & HOBBIES"), SectionBlock(sections, "interests"),
          Heading("BEHAVIORS & HABITS"), SectionBlock(sections, "behaviors"),
          Heading("MOTIVATIONS & GOALS"), SectionBlock(sections, "motivations"),
          Heading("FRUSTRATIONS & PAIN POINTS"), SectionBlock(sections, "frustrations")>>
        \o (IF cite THEN CitationsAppendix(sections) ELSE <<>>)
        \o <<Heading("DISCLAIMER"),
             [line |-> "This persona is generated based on publicly available Reddit activity"],
             [line |-> "Generation completed at"]>>

\* what generate_persona returns when there is no evidence text
NoContentAvailable == <<[text |-> "Unable to generate persona: No content available"]>>

-----------------------------------------------------------------------------
(* generate_persona, run on processed data                                 *)

\* Fetch results: nothing fetched; two posts, one of them deleted, and a
\* comment; one comment that is kept with a body of min_content_length
\* characters; a post and a comment that are both rejected; six items that
\* are all kept.
SampleFetches ==
    {<<<<>>, <<>>>>,
     <<<<RawPost("p1", TitleApp, BodyApps, TagPython, 200, 5),
         RawPost("p3", TitleApp, BodyDeleted, TagNews, 100, 1)>>,
       <<RawComment("c1", BodyCommunity, TagPython, 150, 2)>>>>,
     <<<<>>, <<RawComment("c4", BodyTen, TagAsk, NotANumber, 1)>>>>,
     <<<<RawPost("p3", TitleApp, BodyDeleted, TagNews, 100, 1)>>,
       <<RawComment("c10", BodyShort, TagNews, 400, 1)>>>>,
     <<<<RawPost("p1", TitleApp, BodyApps, TagPython, 200, 5),
         RawPost("p2", <<>>, BodyCommunity, TagGaming, 200, 3),
         RawPost("p9", TitleApp, BodyCommunity, TagAsk, 50, 7)>>,
       <<RawComment("c1", BodyCommunity, TagPython, 150, 2),
         RawComment("c2", BodyApps, TagAsk, 150, -1),
         RawComment("c9", BodyCommunity, TagGaming, 20, 1)>>>>,
     <<<<[id |-> "p5", content |-> BodyTen, subreddit |-> TagPython,
          score |-> 4, url |-> <<"https://reddit.com/", "p5">>, type |-> "post"],
         RawPost("p2", <<>>, BodyCommunity, TagGaming, 200, 3),
         RawPost("p1", TitleApp, BodyApps, TagPython, 200, 5)>>,
       <<RawComment("c1", BodyCommunity, TagPython, 150, 2),
         RawComment("c11", BodyTen, TagAsk, 10, 1)>>>>}

PersonaInit ==
    /\ pc = "processed"
    /\ \E fetch \in SampleFetches :
          /\ user_data = UserData(fetch[1], fetch[2])
          /\ processed_data = process_user_data(user_data)
    /\ include_citations \in BOOLEAN
    /\ evidence = <<>>
    /\ persona_sections = <<>>
    /\ calls = <<>>
    /\ persona = <<>>
    /\ text = <<>>
    /\ cleaned = <<>>
    /\ recleaned = <<>>
    /\ valid = FALSE
    /\ NoCite
    /\ NoMain
    /\ NoUnit

\* generate_persona finds no evidence text and returns
GeneratePersonaNoContent ==
    /\ pc = "processed"
    /\ extract_content_for_analysis(processed_data) = <<>>
    /\ persona' = NoContentAvailable
    /\ pc' = "done"
    /\ UNCHANGED <<include_citations, evidence, persona_sections, calls, textVars, aggVars, citeVars, mainVars, unitVars>>

\* generate_persona that takes the posts out of the processed data as it
\* reads them
GeneratePersona_drains ==
    /\ pc = "processed"
    /\ extract_content_for_analysis(processed_data) # <<>>
    /\ evidence' = extract_content_for_analysis(processed_data)
    /\ persona_sections' = ("basic_info" :> generate_basic_info(processed_data))
    /\ processed_data' = [processed_data EXCEPT !.posts = <<>>]
    /\ pc' = "demographics"
    /\ UNCHANGED <<include_citations, calls, persona, textVars, user_data, citeVars, mainVars, unitVars>>

\* generate_persona up to the first request
GeneratePersona ==
    /\ pc = "processed"
    /\ extract_content_for_analysis(processed_data) # <<>>
    /\ evidence' = extract_content_for_analysis(processed_data)
    /\ persona_sections' = ("basic_info" :> generate_basic_info(processed_data))
    /\ pc' = "demographics"
    /\ UNCHANGED <<include_citations, calls, persona, textVars, aggVars, citeVars, mainVars, unitVars>>

\* one _analyze_* method: the request, and the section made of its outcome
Analyze(facet) ==
    \E outcome \in BackendOutcomes :
        /\ calls' = Append(calls, [facet |-> facet,
                                   prompt |-> prompt(facet, evidence, processed_data),
                                   outcome |-> outcome])
        /\ persona_sections' =
               persona_sections
                   @@ (facet :> analyze(facet, outcome, processed_data, include_citations))

AnalyzeDemographics ==
    /\ pc = "demographics"
    /\ Analyze("demographics")
    /\ pc' = "personality"
    /\ UNCHANGED <<include_citations, evidence, persona, textVars, aggVars, citeVars, mainVars, unitVars>>

\* the personality analysis with the request sent once more when it failed
AnalyzePersonality_retry ==
    /\ pc = "personality"
    /\ \E outcome \in BackendOutcomes, again \in BackendOutcomes :
          LET request(result) == [facet |-> "personality",
                                  prompt |-> prompt("personality", evidence, processed_data),
                                  outcome |-> result]
          IN  IF outcome = "ok"
              THEN /\ calls' = Append(calls, request(outcome))
                   /\ persona_sections' =
                          persona_sections
                              @@ ("personality" :>
                                     analyze("personality", outcome, processed_data, include_citations))
              ELSE /\ calls' = calls \o <<request(outcome), request(again)>>
                   /\ persona_sections' =
                          persona_sections
                              @@ ("personality" :>
                                     analyze("personality", again, processed_data, include_citations))
    /\ pc' = "interests"
    /\ UNCHANGED <<include_citations, evidence, persona, textVars, aggVars, citeVars, mainVars, unitVars>>

AnalyzePersonality ==
    /\ pc = "personality"
    /\ Analyze("personality")
    /\ pc' = "interests"
    /\ UNCHANGED <<include_citations, evidence, persona, textVars, aggVars, citeVars, mainVars, unitVars>>

AnalyzeInterests ==
    /\ pc = "interests"
    /\ Analyze("interests")
    /\ pc' = "behaviors"
    /\ UNCHANGED <<include_citations, evidence, persona, textVars, aggVars, citeVars, mainVars, unitVars>>

AnalyzeBehaviors ==
    /\ pc = "behaviors"
    /\ Analyze("behaviors")
    /\ pc' = "motivations"
    /\ UNCHANGED <<include_citations, evidence, persona, textVars, aggVars, citeVars, mainVars, unitVars>>

AnalyzeMotivations ==
    /\ pc = "motivations"
    /\ Analyze("motivations")
    /\ pc' = "frustrations"
    /\ UNCHANGED <<include_citations, evidence, persona, textVars, aggVars, citeVars, mainVars, unitVars>>

AnalyzeFrustrations ==
    /\ pc = "frustrations"
    /\ Analyze("frustrations")
    /\ pc' = "format"
    /\ UNCHANGED <<include_citations, evidence, persona, textVars, aggVars, citeVars, mainVars, unitVars>>

\* generate_persona formats the sections and returns
FormatPersona ==
    /\ pc = "format"
    /\ persona' = format_persona(persona_sections, processed_data, include_citations)
    /\ pc' = "done"
    /\ UNCHANGED <<include_citations, evidence, persona_sections, calls, textVars, aggVars, citeVars, mainVars, unitVars>>

PersonaNext ==
    \/ GeneratePersonaNoContent
    \/ GeneratePersona
    \/ AnalyzeDemographics
    \/ AnalyzePersonality
    \/ AnalyzeInterests
    \/ AnalyzeBehaviors
    \/ AnalyzeMotivations
    \/ AnalyzeFrustrations
    \/ FormatPersona

SpecPersona == PersonaInit /\ [][PersonaNext]_vars

\* generate_persona on a long profile, whose evidence text exceeds
\* PromptBudget, on a short one and on an empty one
BudgetFetches ==
    {<<LongPosts, <<>>>>,
     <<<<RawPost("p1", TitleApp, BodyApps, TagPython, 200, 5)>>,
       <<RawComment("c1", BodyCommunity, TagPython, 150, 2)>>>>,
     <<<<>>, <<>>>>}

\* the long profile is followed with the citations on, the other two with
\* and without them

BudgetInit ==
    /\ pc = "processed"
    /\ \E fetch \in BudgetFetches :
          /\ user_data = UserData(fetch[1], fetch[2])
          /\ processed_data = process_user_data(user_data)
          /\ include_citations \in (IF fetch[1] = LongPosts THEN {TRUE} ELSE BOOLEAN)
    /\ evidence = <<>>
    /\ persona_sections = <<>>
    /\ calls = <<>>
    /\ persona = <<>>
    /\ text = <<>>
    /\ cleaned = <<>>
    /\ recleaned = <<>>
    /\ valid = FALSE
    /\ NoCite
    /\ NoMain
    /\ NoUnit

SpecBudget == BudgetInit /\ [][PersonaNext]_vars

-----------------------------------------------------------------------------
(* main: the URL of the profile                                            *)

\* the length of the longest prefix of s without a character of `stops`
RECURSIVE SpanUntil(_, _)
SpanUntil(s, stops) ==
    IF s # <<>> /\ Head(s) \notin stops THEN 1 + SpanUntil(Tail(s), stops) ELSE 0

\* the position of the first occurrence of p in s, which contains p
FirstIndex(s, p) ==
    Min({i \in 1..(Len(s) - Len(p) + 1) : SubSeq(s, i, i + Len(p) - 1) = p})

SchemeChars == Letters \cup Digits \cup {"+", "-", "."}

\* urlparse(url): what follows the scheme, when there is one
after_scheme(u) ==
    LET n == SpanUntil(u, {":"})
    IN  IF /\ n >= 1
           /\ n < Len(u)
           /\ u[1] \in Letters
           /\ \A i \in 1..n : u[i] \in SchemeChars
        THEN Drop(u, n + 1)
        ELSE u

\* urlparse(url).netloc
netloc(u) ==
    LET rest == after_scheme(u)
    IN  IF HasPrefix(rest, <<"/", "/">>)
        THEN SubSeq(rest, 3, 2 + SpanUntil(Drop(rest, 2), {"/", "?", "#"}))
        ELSE <<>>

\* urlparse(url).path
path(u) ==
    LET rest == after_scheme(u)
        tail == IF HasPrefix(rest, <<"/", "/">>)
                THEN Drop(rest, 2 + SpanUntil(Drop(rest, 2), {"/", "?", "#"}))
                ELSE rest
    IN  SubSeq(tail, 1, SpanUntil(tail, {"?", "#"}))

reddit_domains ==
    {<<"r","e","d","d","i","t",".","c","o","m">>,
     <<"w","w","w",".","r","e","d","d","i","t",".","c","o","m">>,
     <<"o","l","d",".","r","e","d","d","i","t",".","c","o","m">>}

\* re.match of ^<prefix>[^/]+/?$ on a path
matches_profile(p, prefix) ==
    /\ HasPrefix(p, prefix)
    /\ LET rest == Drop(p, Len(prefix))
           n == SpanUntil(rest, {"/"})
       IN  /\ n >= 1
           /\ Drop(rest, n) \in {<<>>, <<"/">>}

validate_reddit_url(u) ==
    /\ netloc(u) # <<>>
    /\ netloc(u) \in reddit_domains
    /\ \/ matches_profile(path(u), <<"/","u","s","e","r","/">>)
       \/ matches_profile(path(u), <<"/","u","/">>)

validate_url(u) == validate_reddit_url(u)

\* str.rstrip('/')
RECURSIVE rstrip_slash(_)
rstrip_slash(s) ==
    IF s # <<>> /\ s[Len(s)] = "/" THEN rstrip_slash(SubSeq(s, 1, Len(s) - 1)) ELSE s

\* s.split(sep)[1], for an s that contains sep
second_part(s, sep) ==
    LET rest == Drop(s, FirstIndex(s, sep) + Len(sep) - 1)
    IN  IF Contains(rest, sep) THEN SubSeq(rest, 1, FirstIndex(rest, sep) - 1) ELSE rest

extract_username_raises(u) ==
    /\ ~Contains(u, <<"/","u","s","e","r","/">>)
    /\ ~Contains(u, <<"/","u","/">>)

extract_username(u) ==
    LET marker == IF Contains(u, <<"/","u","s","e","r","/">>) THEN <<"/","u","s","e","r","/">> ELSE <<"/","u","/">>
        username == rstrip_slash(second_part(u, marker))
    IN  SubSeq(username, 1, SpanUntil(username, {"/"}))


\* the URLs main is started with: two profile URLs, another site, a page
\* that is no profile, a profile address without scheme
Urls ==
    {<<"h","t","t","p","s",":","/","/","w","w","w",".","r","e","d","d","i",
       "t",".","c","o","m","/","u","s","e","r","/","k","o","j","i","e","d",
       "/">>,
     <<"h","t","t","p","s",":","/","/","r","e","d","d","i","t",".","c","o",
       "m","/","u","/","b","o","b">>,
     <<"h","t","t","p","s",":","/","/","e","x","a","m","p","l","e",".","c",
       "o","m","/","u","s","e","r","/","b","o","b">>,
     <<"h","t","t","p","s",":","/","/","w","w","w",".","r","e","d","d","i",
       "t",".","c","o","m","/","r","/","p","y","t","h","o","n">>,
     <<"w","w","w",".","r","e","d","d","i","t",".","c","o","m","/","u","s",
       "e","r","/","b","o","b">>}

-----------------------------------------------------------------------------
(* validate_url and extract_username, as main calls them on a URL           *)

Schemes == {<<"h","t","t","p","s",":","/","/">>, <<"h","t","t","p",":","/","/">>, <<"/","/">>}

Hosts == reddit_domains \cup {<<"e","x","a","m","p","l","e",".","c","o","m">>}

Prefixes == {<<"/","u","s","e","r","/">>, <<"/","u","/">>, <<"/","r","/">>}

Names == {<<"u","s","e","r">>, <<"u">>, <<"b","o","b">>, <<"k","o","j","i","e","d">>, <<>>}

Endings == {<<>>, <<"/">>, <<"/","/">>, <<"/","p","o","s","t","s">>, <<"?","x","=","1">>}

\* the URLs made of a scheme, a host, a prefix, a name and an ending
BuiltUrls ==
    {scheme \o host \o prefix \o name \o ending :
        scheme \in Schemes, host \in Hosts, prefix \in Prefixes, name \in Names,
        ending \in Endings}

UrlInit ==
    /\ pc = "validate_url"
    /\ url \in BuiltUrls
    /\ url_ok = FALSE
    /\ extracted = <<>>
    /\ ran = <<>>
    /\ exit_status = "running"
    /\ output_file = <<>>
    /\ summary = <<>>
    /\ NoCategory
    /\ NoFetch
    /\ NoRetry
    /\ user_data = None
    /\ processed_data = None
    /\ text = <<>>
    /\ cleaned = <<>>
    /\ recleaned = <<>>
    /\ valid = FALSE
    /\ NoPersona
    /\ NoCite

\* main: "if not validate_url(args.url): ... sys.exit(1)"
CallValidateUrl ==
    /\ pc = "validate_url"
    /\ url_ok' = validate_url(url)
    /\ pc' = IF validate_url(url) THEN "extract_username" ELSE "invalid_url"
    /\ UNCHANGED <<extracted, categoryVars, fetchVars, retryVars, textVars, aggVars,
                   personaVars, citeVars, mainVars>>

\* main: "username = extract_username(args.url)"
CallExtractUsername ==
    /\ pc = "extract_username"
    /\ IF extract_username_raises(url)
       THEN /\ extracted' = None
            /\ pc' = "username_error"
       ELSE /\ extracted' = extract_username(url)
            /\ pc' = "username"
    /\ UNCHANGED <<url_ok, categoryVars, fetchVars, retryVars, textVars, aggVars,
                   personaVars, citeVars, mainVars>>

UrlNext ==
    \/ CallValidateUrl
    \/ CallExtractUsername

SpecUrl == UrlInit /\ [][UrlNext]_vars

-----------------------------------------------------------------------------
(* rate_limit_handler: a call of the wrapper it returns                     *)

max_retries == 3
base_delay == 1

MaxInvocations == 4

\* str(e) of the exceptions func raises
RateLimitExceeded == <<"r","a","t","e"," ","l","i","m","i","t"," ","h","i","t">>
RateLimitCapitals == <<"4","2","9",":"," ","R","a","t","e"," ","L","i","m","i","t">>
Ratelimit == <<"r","a","t","e","l","i","m","i","t">>
TimedOut == <<"t","i","m","e","d"," ","o","u","t">>

\* what an invocation of func does: it returns, or it raises e
FuncOutcomes ==
    {[raised |-> FALSE, message |-> <<>>]}
    \cup {[raised |-> TRUE, message |-> m] :
             m \in {RateLimitExceeded, RateLimitCapitals, Ratelimit, TimedOut}}

\* "rate limit" in str(e), the case of the message kept
is_rate_limit_cased(message) ==
    Contains(message, <<"r","a","t","e"," ","l","i","m","i","t">>)

\* "rate limit" in str(e).lower()
is_rate_limit(message) ==
    Contains(lower(message), <<"r","a","t","e"," ","l","i","m","i","t">>)

RetryInit ==
    /\ pc = "wrapper"
    /\ func_outcomes \in [1..MaxInvocations -> FuncOutcomes]
    /\ attempts = 0
    /\ delays = <<>>
    /\ wrapper_result = "running"
    /\ NoCategory
    /\ NoFetch
    /\ NoUrl
    /\ user_data = None
    /\ processed_data = None
    /\ text = <<>>
    /\ cleaned = <<>>
    /\ recleaned = <<>>
    /\ valid = FALSE
    /\ NoPersona
    /\ NoCite
    /\ NoMain

\* one round of "for attempt in range(max_retries)": func is invoked; the
\* wrapper returns what it returned, or sleeps and goes round again, or
\* raises what it raised
Invoke ==
    /\ pc = "wrapper"
    /\ attempts < max_retries
    /\ attempts' = attempts + 1
    /\ IF ~func_outcomes[attempts + 1].raised
       THEN /\ wrapper_result' = "returned"
            /\ delays' = delays
            /\ pc' = "wrapper_done"
       ELSE IF /\ is_rate_limit(func_outcomes[attempts + 1].message)
               /\ attempts < max_retries - 1
            THEN /\ wrapper_result' = "running"
                 /\ delays' = Append(delays, base_delay * (2 ^ attempts))
                 /\ pc' = "wrapper"
            ELSE /\ wrapper_result' = "raised"
                 /\ delays' = delays
                 /\ pc' = "wrapper_done"
    /\ UNCHANGED <<func_outcomes, categoryVars, fetchVars, urlVars, textVars, aggVars,
                   personaVars, citeVars, mainVars>>

RetryNext ==
    \/ Invoke

SpecRetry == RetryInit /\ [][RetryNext]_vars

-----------------------------------------------------------------------------
(* _extract_citations, called on a Corpus and an analysis text             *)

\* processed posts and comments, newest first
CitablePosts ==
    <<cleaned_post_of[RawPost("p1", TitleApp, BodyApps, TagPython, 200, 5)],
      cleaned_post_of[RawPost("p2", <<>>, BodyCommunity, TagGaming, 200, 3)],
      cleaned_post_of[RawPost("p9", TitleApp, BodyCommunity, TagAsk, 50, 7)],
      cleaned_post_of[RawPost("p10", <<>>, BodyApps, TagNews, 40, 2)],
      cleaned_post_of[RawPost("p11", TitleApp, BodyApps, TagAsk, 30, 0)],
      cleaned_post_of[RawPost("p12", TitleApp, BodyCommunity, TagPython, 20, 9)]>>

CitableComments ==
    <<cleaned_comment_of[RawComment("c1", BodyCommunity, TagPython, 150, 2)],
      cleaned_comment_of[RawComment("c2", BodyApps, TagAsk, 150, -1)],
      cleaned_comment_of[RawComment("c9", BodyCommunity, TagGaming, 20, 1)]>>

\* the items of a sequence at the positions in `keep`, in their order
Pick(items, keep) ==
    LET at == Ascending(keep)
    IN  [i \in 1..Len(at) |-> items[at[i]]]

\* the Corpora _extract_citations is called on: any choice of the posts and
\* of the comments, and a dict without the two keys
Corpora ==
    {[username |-> "kojied",
      posts |-> Pick(CitablePosts, kp),
      comments |-> Pick(CitableComments, kc)] :
        kp \in SUBSET (1..Len(CitablePosts)), kc \in SUBSET (1..Len(CitableComments))}
    \cup {[username |-> "kojied"]}

AnalysisTexts == {Completion["demographics"], Completion["interests"], ""}

CiteInit ==
    /\ pc = "cite"
    /\ user_data = None
    /\ processed_data \in Corpora
    /\ analysis \in AnalysisTexts
    /\ top_citations = <<>>
    /\ text = <<>>
    /\ cleaned = <<>>
    /\ recleaned = <<>>
    /\ valid = FALSE
    /\ NoPersona
    /\ NoMain
    /\ NoUnit

CallExtractCitations ==
    /\ pc = "cite"
    /\ top_citations' = extract_citations(analysis, processed_data)
    /\ pc' = "cited"
    /\ UNCHANGED <<analysis, textVars, aggVars, personaVars, mainVars, unitVars>>

CiteNext ==
    \/ CallExtractCitations

SpecCite == CiteInit /\ [][CiteNext]_vars

-----------------------------------------------------------------------------
(* Properties of generate_persona                                          *)

\* the headings of a document, in its order
Headings(doc) ==
    LET headed == SelectSeq(doc, LAMBDA block : "heading" \in DOMAIN block)
    IN  [i \in 1..Len(headed) |-> headed[i].heading]

\* the block that follows the heading `title` in a document
BlockUnder(doc, title) ==
    doc[1 + CHOOSE i \in 1..Len(doc) : "heading" \in DOMAIN doc[i] /\ doc[i].heading = title]

FacetHeadings ==
    <<"DEMOGRAPHICS", "PERSONALITY TRAITS", "INTERESTS & HOBBIES", "BEHAVIORS & HABITS",
      "MOTIVATIONS & GOALS", "FRUSTRATIONS & PAIN POINTS">>

EmptyCorpus(data) == Len(data.posts) = 0 /\ Len(data.comments) = 0

\* C1: a facet whose request fails holds the fallback text of that facet and
\* no citations; every facet whose request succeeds holds the completion of
\* its own request and its citations; whatever fails, all six requests are
\* made, in order, and the document is returned with each section under its
\* heading.
C1_FacetIsolation ==
    /\ \A i \in 1..Len(calls) :
          LET facet == Facets[i]
              section == persona_sections[facet]
          IN  /\ calls[i].facet = facet
              /\ IF calls[i].outcome = "ok"
                 THEN /\ section.analysis = Completion[facet]
                      /\ section.citations =
                             IF include_citations
                             THEN extract_citations(Completion[facet], processed_data)
                             ELSE <<>>
                      /\ Len(section.citations) <= MaxCitations
                 ELSE /\ section.analysis = Fallback[facet]
                      /\ section.citations = <<>>
    /\ (pc \in {"format", "done"} /\ evidence # <<>>) => Len(calls) = Len(Facets)
    /\ (pc = "done" /\ evidence # <<>>) =>
          \A i \in 1..Len(Facets) :
              BlockUnder(persona, FacetHeadings[i]).analysis
                  = persona_sections[Facets[i]].analysis

\* the request for the personality failed, the five others succeeded
C1_Witness ==
    /\ pc = "done"
    /\ include_citations
    /\ Len(calls) = 6
    /\ calls[2].outcome = "RateLimitError"
    /\ \A i \in {1, 3, 4, 5, 6} : calls[i].outcome = "ok"
    /\ BlockUnder(persona, "PERSONALITY TRAITS").analysis = "Unable to analyze personality"
    /\ BlockUnder(persona, "INTERESTS & HOBBIES").analysis = "completion for interests"
    /\ persona_sections["personality"].citations = <<>>
    /\ Len(persona_sections["frustrations"].citations) = 5

\* the document an empty corpus would get if it were formatted like any other
HasAllSections(doc) ==
    /\ doc # <<>>
    /\ "heading" \in DOMAIN doc[1]
    /\ \A title \in {"USER PERSONA", "BASIC INFORMATION", "DISCLAIMER"}
                       \cup {FacetHeadings[i] : i \in 1..Len(FacetHeadings)} :
          \E i \in 1..Len(doc) : "heading" \in DOMAIN doc[i] /\ doc[i].heading = title

\* C2 as stated: for a corpus without posts and comments generate_persona
\* returns a document that has the header, the basic information, all six
\* facet sections and the disclaimer.
C2_EmptyCorpusDocument ==
    (pc = "done" /\ EmptyCorpus(processed_data)) => HasAllSections(persona)

\* C2 as amended: for a corpus without posts and comments generate_persona
\* returns, without a request to the backend and without making a section,
\* the text "Unable to generate persona: No content available", which has
\* no header, no basic information, no facet section and no disclaimer.
C2_EmptyCorpusFallback ==
    (pc = "done" /\ EmptyCorpus(processed_data)) =>
        /\ persona = <<[text |-> "Unable to generate persona: No content available"]>>
        /\ Headings(persona) = <<>>
        /\ calls = <<>>
        /\ persona_sections = <<>>

\* a post and a comment were fetched and both were rejected
C2_Witness ==
    /\ pc = "done"
    /\ Len(user_data.posts) = 1
    /\ Len(user_data.comments) = 1
    /\ EmptyCorpus(processed_data)
    /\ processed_data.subreddits # <<>>
    /\ persona = NoContentAvailable

\* C3: in a formatted document the six facet sections come in the order
\* demographics, personality, interests, behaviors, motivations,
\* frustrations, after the header and the basic information and before the
\* citations appendix, if any, and the disclaimer, whichever requests failed.
C3_SectionOrder ==
    (pc = "done" /\ evidence # <<>>) =>
        /\ Headings(persona) =
               <<"USER PERSONA", "BASIC INFORMATION">> \o FacetHeadings
                   \o (IF include_citations THEN <<"CITATIONS & SOURCES">> ELSE <<>>)
                   \o <<"DISCLAIMER">>
        /\ \A i \in 1..Len(Facets) :
              BlockUnder(persona, FacetHeadings[i]) =
                  [analysis |-> IF calls[i].outcome = "ok" THEN Completion[Facets[i]]
                                ELSE Fallback[Facets[i]]]

\* requests 1, 3 and 5 succeeded, 2, 4 and 6 failed; citations are appended
C3_Witness ==
    /\ pc = "done"
    /\ include_citations
    /\ Len(calls) = 6
    /\ \A i \in {1, 3, 5} : calls[i].outcome = "ok"
    /\ \A i \in {2, 4, 6} : calls[i].outcome # "ok"
    /\ Headings(persona)[8] = "FRUSTRATIONS & PAIN POINTS"
    /\ Headings(persona)[9] = "CITATIONS & SOURCES"
    /\ Headings(persona)[10] = "DISCLAIMER"

-----------------------------------------------------------------------------
(* main: validate the URL, build the components, scrape, process,         *)
(* generate, save                                                          *)

\* what scrape_user_profile meets: the profile; a session that is not
\* authenticated; NotFound or Forbidden on the redditor; another exception
ScrapeOutcomes == {"ok", "not_authenticated", "NotFound", "Forbidden", "error"}

\* what _initialize_reddit_client meets: reddit.user.me() answers, or the
\* credentials are rejected and the constructor raises
ClientOutcomes == {"ok", "authentication_failed"}

\* open(output_file, 'w') and f.write(persona)
WriteOutcomes == {"ok", "OSError"}

\* the posts and comments a profile is scraped to
ScrapedFetches ==
    {<<<<>>, <<>>>>,
     <<<<RawPost("p1", TitleApp, BodyApps, TagPython, 200, 5),
         RawPost("p3", TitleApp, BodyDeleted, TagNews, 100, 1)>>,
       <<RawComment("c1", BodyCommunity, TagPython, 150, 2)>>>>,
     <<<<RawPost("p3", TitleApp, BodyDeleted, TagNews, 100, 1)>>,
       <<RawComment("c10", BodyShort, TagNews, 400, 1)>>>>,
     <<<<RawPost("p6", TitleApp, BodyApps, TagGaming, NotANumber, 1),
         RawPost("p1", TitleApp, BodyApps, TagPython, 200, 5)>>,
       <<>>>>}

\* the dict scrape_user_profile returns
scraped_user_data(username, posts, comments) ==
    [username |-> username,
     account_age_days |-> 365,
     karma |-> [post |-> 12, comment |-> 34],
     posts |-> posts,
     comments |-> comments,
     subreddits |-> scraped_subreddits(posts, comments)]

\* one step of main, with how it went
Step(step, outcome) == [step |-> step, outcome |-> outcome]

\* the lines main prints once the file is written
printed_summary(username, data) ==
    <<[label |-> "PERSONA GENERATION COMPLETE"],
      [label |-> "User", value |-> username],
      [label |-> "Posts analyzed", value |-> Len(Get(data, "posts", <<>>))],
      [label |-> "Comments analyzed", value |-> Len(Get(data, "comments", <<>>))],
      [label |-> "Output file", value |-> username \o <<"_persona.txt">>]>>

MainInit ==
    /\ pc = "main"
    /\ url \in Urls
    /\ ran = <<>>
    /\ exit_status = "running"
    /\ output_file = <<>>
    /\ summary = <<>>
    /\ user_data = None
    /\ processed_data = None
    /\ text = <<>>
    /\ cleaned = <<>>
    /\ recleaned = <<>>
    /\ valid = FALSE
    /\ NoPersona
    /\ NoCite
    /\ NoUnit

\* validate_url, extract_username; an invalid URL ends the run
MainValidateUrl ==
    /\ pc = "main"
    /\ IF ~validate_url(url)
       THEN /\ ran' = Append(ran, Step("validate_url", "invalid"))
            /\ exit_status' = "1"
            /\ pc' = "exited"
       ELSE IF extract_username_raises(url)
       THEN /\ ran' = Append(ran, Step("extract_username", "ValueError"))
            /\ exit_status' = "1"
            /\ pc' = "exited"
       ELSE /\ ran' = Append(ran, Step("validate_url", "valid"))
            /\ exit_status' = exit_status
            /\ pc' = "components"
    /\ UNCHANGED <<url, output_file, summary, textVars, aggVars, personaVars, citeVars, unitVars>>

\* RedditScraper(...), DataProcessor(...), PersonaGenerator(...): the first
\* constructor authenticates and raises when it cannot; the last one stores
\* the API key without using it
MainInitializeComponents ==
    /\ pc = "components"
    /\ \E client \in ClientOutcomes, no_citations \in BOOLEAN :
          IF client = "ok"
          THEN /\ ran' = Append(ran, Step("RedditScraper", client))
               /\ include_citations' = ~no_citations
               /\ exit_status' = exit_status
               /\ pc' = "scrape"
          ELSE /\ ran' = Append(ran, Step("RedditScraper", client))
               /\ include_citations' = include_citations
               /\ exit_status' = "1"
               /\ pc' = "exited"
    /\ UNCHANGED <<url, output_file, summary, evidence, persona_sections, calls, persona,
                   textVars, aggVars, citeVars, unitVars>>

\* the scrape, with a profile that cannot be read taken for an empty one
MainScrape_empty_profile ==
    /\ pc = "scrape"
    /\ \E outcome \in ScrapeOutcomes :
          IF outcome = "ok"
          THEN \E fetch \in ScrapedFetches :
                  /\ user_data' = scraped_user_data(extract_username(url), fetch[1], fetch[2])
                  /\ ran' = Append(ran, Step("scrape_user_profile", outcome))
                  /\ exit_status' = exit_status
                  /\ pc' = "process"
          ELSE /\ user_data' = scraped_user_data(extract_username(url), <<>>, <<>>)
               /\ ran' = Append(ran, Step("scrape_user_profile", outcome))
               /\ exit_status' = exit_status
               /\ pc' = "process"
    /\ UNCHANGED <<url, output_file, summary, processed_data, textVars, personaVars, citeVars, unitVars>>

\* scraper.scrape_user_profile(username) and the test of what it returned
MainScrape ==
    /\ pc = "scrape"
    /\ \E outcome \in ScrapeOutcomes :
          IF outcome = "ok"
          THEN \E fetch \in ScrapedFetches :
                  /\ user_data' = scraped_user_data(extract_username(url), fetch[1], fetch[2])
                  /\ ran' = Append(ran, Step("scrape_user_profile", outcome))
                  /\ exit_status' = exit_status
                  /\ pc' = "process"
          ELSE /\ user_data' = None
               /\ ran' = Append(ran, Step("scrape_user_profile", outcome))
               /\ exit_status' = "1"
               /\ pc' = "exited"
    /\ UNCHANGED <<url, output_file, summary, processed_data, textVars, personaVars, citeVars, unitVars>>

\* processor.process_user_data(user_data); what it raises ends the run
MainProcess ==
    /\ pc = "process"
    /\ IF process_user_data_raises(user_data)
       THEN /\ processed_data' = processed_data
            /\ ran' = Append(ran, Step("process_user_data", "TypeError"))
            /\ exit_status' = "1"
            /\ pc' = "exited"
       ELSE /\ processed_data' = process_user_data(user_data)
            /\ ran' = Append(ran, Step("process_user_data", "ok"))
            /\ exit_status' = exit_status
            /\ pc' = "processed"
    /\ UNCHANGED <<url, output_file, summary, user_data, textVars, personaVars, citeVars, unitVars>>

\* the file is written, the summary printed, and main returns
MainSave ==
    /\ pc = "done"
    /\ \E written \in WriteOutcomes :
          IF written = "ok"
          THEN /\ output_file' = persona
               /\ summary' = printed_summary(extract_username(url), processed_data)
               /\ ran' = ran \o <<Step("generate_persona", "returned"), Step("write", written)>>
               /\ exit_status' = "0"
          ELSE /\ output_file' = output_file
               /\ summary' = summary
               /\ ran' = ran \o <<Step("generate_persona", "returned"), Step("write", written)>>
               /\ exit_status' = "1"
    /\ pc' = "exited"
    /\ UNCHANGED <<url, textVars, aggVars, personaVars, citeVars, unitVars>>

\* the stages of generate_persona at which a request is the next thing done
FacetStages ==
    {"demographics", "personality", "interests", "behaviors", "motivations",
     "frustrations"}

\* the stage that follows a facet
StageAfter ==
    [demographics |-> "personality", personality |-> "interests",
     interests |-> "behaviors", behaviors |-> "motivations",
     motivations |-> "frustrations", frustrations |-> "format"]

\* the interrupt taken for a failed request: the facet falls back and the
\* assembly goes on
MainInterrupt_swallowed ==
    /\ exit_status = "running"
    /\ pc \in FacetStages
    /\ calls' = Append(calls, [facet |-> pc,
                               prompt |-> prompt(pc, evidence, processed_data),
                               outcome |-> "KeyboardInterrupt"])
    /\ persona_sections' =
           persona_sections @@ (pc :> [analysis |-> Fallback[pc], citations |-> <<>>])
    /\ ran' = Append(ran, Step("KeyboardInterrupt", pc))
    /\ pc' = StageAfter[pc]
    /\ UNCHANGED <<url, exit_status, output_file, summary, include_citations, evidence,
                   persona, textVars, aggVars, citeVars, unitVars>>

\* KeyboardInterrupt, raised inside the try block of main: between two
\* statements, or inside a request that was sent.  No "except Exception"
\* catches it, so it reaches "except KeyboardInterrupt" of main.
MainInterrupt ==
    /\ exit_status = "running"
    /\ pc # "exited"
    /\ \E in_request \in BOOLEAN :
          IF in_request /\ pc \in FacetStages
          THEN calls' = Append(calls, [facet |-> pc,
                                      prompt |-> prompt(pc, evidence, processed_data),
                                      outcome |-> "KeyboardInterrupt"])
          ELSE calls' = calls
    /\ ran' = Append(ran, Step("KeyboardInterrupt", pc))
    /\ exit_status' = "1"
    /\ pc' = "exited"
    /\ UNCHANGED <<url, output_file, summary, include_citations, evidence, persona_sections,
                   persona, textVars, aggVars, citeVars, unitVars>>

MainNext ==
    \/ MainValidateUrl
    \/ MainInitializeComponents
    \/ MainScrape
    \/ MainProcess
    \/ GeneratePersonaNoContent
    \/ GeneratePersona
    \/ AnalyzeDemographics
    \/ AnalyzePersonality
    \/ AnalyzeInterests
    \/ AnalyzeBehaviors
    \/ AnalyzeMotivations
    \/ AnalyzeFrustrations
    \/ FormatPersona
    \/ MainSave
    \/ MainInterrupt

SpecMain == MainInit /\ [][MainNext]_vars

-----------------------------------------------------------------------------
(* Properties of the statistics                                            *)

Scores(items) == [i \in 1..Len(items) |-> items[i].score]

\* C11: the statistics of a corpus without posts and comments are counts of
\* 0, means of 0, an empty list of top subreddits and a diversity of 0, and
\* when only the posts or only the comments are missing their mean score is
\* 0 while the other mean is the sum of the scores over their number.
C11_EmptyStatistics ==
    pc = "processed" =>
        LET posts == processed_data.posts
            comments == processed_data.comments
            statistics == processed_data.statistics
        IN  /\ statistics.total_posts = Len(posts)
            /\ statistics.total_comments = Len(comments)
            /\ posts = <<>> => statistics.average_post_score = [num |-> 0, den |-> 1]
            /\ comments = <<>> => statistics.average_comment_score = [num |-> 0, den |-> 1]
            /\ posts # <<>> =>
                  statistics.average_post_score
                      = [num |-> Sum(Scores(posts)), den |-> Len(posts)]
            /\ comments # <<>> =>
                  statistics.average_comment_score
                      = [num |-> Sum(Scores(comments)), den |-> Len(comments)]
            /\ (posts = <<>> /\ comments = <<>>) =>
                  /\ statistics.content_length_avg = [num |-> 0, den |-> 1]
                  /\ statistics.top_subreddits = <<>>
                  /\ statistics.subreddit_diversity = 0

\* a "[deleted]" post and two comments with the scores 2 and -1 were
\* fetched: no post is left, the mean comment score is 1/2
C11_Witness ==
    /\ pc = "processed"
    /\ Len(user_data.posts) = 1
    /\ processed_data.posts = <<>>
    /\ Len(processed_data.comments) = 2
    /\ processed_data.statistics.total_posts = 0
    /\ processed_data.statistics.average_post_score = Zero
    /\ processed_data.statistics.average_comment_score = Quotient(1, 2)

\* the fetch result of the scenario: a post of 200 with the body "I love
\* programming in python and building cool apps", a post of 100 with the body
\* "[deleted]", a comment of 150 with the body "This is a great community
\* honestly"
ScenarioFetched(data) ==
    /\ Len(data.posts) = 2
    /\ Len(data.comments) = 1
    /\ \A item \in Range(data.posts) \cup Range(data.comments) : WellFormed(item)
    /\ data.posts[1].content = BodyApps /\ data.posts[1].created_utc = 200
    /\ data.posts[2].content = BodyDeleted /\ data.posts[2].created_utc = 100
    /\ data.comments[1].content = BodyCommunity /\ data.comments[1].created_utc = 150

\* C13: for the fetch result of the scenario process_user_data gives one post,
\* of 200, one comment, of 150, total_posts = 1 and total_comments = 1; and
\* for any corpus of one post and one comment most_active_subreddit is the
\* tag of the post, which is the shared tag when the two tags are the same.
C13_Scenario ==
    pc = "processed" =>
        /\ ScenarioFetched(user_data) =>
              /\ Len(processed_data.posts) = 1
              /\ processed_data.posts[1].created_utc = 200
              /\ processed_data.posts[1].content = BodyApps
              /\ Len(processed_data.comments) = 1
              /\ processed_data.comments[1].created_utc = 150
              /\ processed_data.statistics.total_posts = 1
              /\ processed_data.statistics.total_comments = 1
        /\ (Len(processed_data.posts) = 1 /\ Len(processed_data.comments) = 1) =>
              processed_data.statistics.most_active_subreddit
                  = processed_data.posts[1].subreddit

\* the scenario, its post and its comment both tagged "Python"
C13_Witness ==
    /\ pc = "processed"
    /\ ScenarioFetched(user_data)
    /\ Ids(processed_data.posts) = {"p1"}
    /\ Ids(processed_data.comments) = {"c1"}
    /\ processed_data.comments[1].subreddit = processed_data.posts[1].subreddit
    /\ processed_data.statistics.most_active_subreddit = TagPython
    /\ processed_data.statistics.top_subreddits = <<<<TagPython, 2>>>>

-----------------------------------------------------------------------------
(* Properties of _extract_citations                                        *)

CorpusPosts == Get(processed_data, "posts", <<>>)
CorpusComments == Get(processed_data, "comments", <<>>)

\* C12: for every Corpus and every analysis text _extract_citations returns
\* at most MaxCitations (5) entries, and it returns the empty list when the
\* Corpus has no posts and no comments.
C12_CitationBound ==
    pc = "cited" =>
        /\ Len(top_citations) <= MaxCitations
        /\ (CorpusPosts = <<>> /\ CorpusComments = <<>>) => top_citations = <<>>

\* a Corpus of more than MaxCitations items was cited
C12_Witness ==
    /\ pc = "cited"
    /\ Len(CorpusPosts) + Len(CorpusComments) > MaxCitations
    /\ Len(top_citations) = MaxCitations

\* C17: _extract_citations returns the first MaxCitations items of "the
\* posts of the Corpus in Corpus order, then its comments in Corpus order",
\* whatever the analysis text; a comment is cited only when there are fewer
\* than MaxCitations posts; each citation carries the kind, the title (of a
\* post), the URL, the text and the tag of the item at its position,
\* unchanged.
C17_CitationSelection ==
    pc = "cited" =>
        LET all_items == CorpusPosts \o CorpusComments
        IN  /\ Len(top_citations) = Min({MaxCitations, Len(all_items)})
            /\ \A i \in 1..Len(top_citations) :
                  LET citation == top_citations[i]
                      item == all_items[i]
                  IN  /\ citation.url = item.url
                      /\ citation.subreddit = item.subreddit
                      /\ citation.content = item.content
                      /\ IF i <= Len(CorpusPosts)
                         THEN /\ citation.type = "post"
                              /\ citation.title = item.title
                              /\ DOMAIN citation = {"type", "content", "title", "url", "subreddit"}
                         ELSE /\ citation.type = "comment"
                              /\ Len(CorpusPosts) < MaxCitations
                              /\ DOMAIN citation = {"type", "content", "url", "subreddit"}

\* posts and comments were cited, some comments were left out, and the
\* analysis text was not empty
C17_Witness ==
    /\ pc = "cited"
    /\ analysis # ""
    /\ Len(CorpusPosts) = 3
    /\ Len(CorpusComments) = 3
    /\ top_citations[1].type = "post"
    /\ top_citations[MaxCitations].type = "comment"

-----------------------------------------------------------------------------
(* Properties of main                                                      *)

\* the steps main took, in order
StepsTaken == [i \in 1..Len(ran) |-> ran[i].step]

\* the outcome of a step main took
OutcomeOf(step) == ran[CHOOSE i \in 1..Len(ran) : ran[i].step = step].outcome

Took(step) == \E i \in 1..Len(ran) : ran[i].step = step

\* C14: when the subject is not found or access to it is forbidden,
\* scrape_user_profile reports failure (None) and main exits with a failure
\* status: process_user_data and generate_persona are never run and no
\* output file is written.
C14_FatalFetchError ==
    (Took("scrape_user_profile") /\ OutcomeOf("scrape_user_profile") \in {"NotFound", "Forbidden"}) =>
        /\ pc = "exited"
        /\ exit_status = "1"
        /\ StepsTaken = <<"validate_url", "RedditScraper", "scrape_user_profile">>
        /\ user_data = None
        /\ processed_data = None
        /\ evidence = <<>>
        /\ calls = <<>>
        /\ persona = <<>>
        /\ output_file = <<>>
        /\ summary = <<>>

\* a run ended on a profile that was not found
C14_Witness ==
    /\ pc = "exited"
    /\ Took("scrape_user_profile")
    /\ OutcomeOf("scrape_user_profile") = "NotFound"
    /\ exit_status = "1"

\* the activity fetcher could not authenticate
FetcherNotAuthenticated ==
    \/ Took("RedditScraper") /\ OutcomeOf("RedditScraper") = "authentication_failed"
    \/ Took("scrape_user_profile") /\ OutcomeOf("scrape_user_profile") = "not_authenticated"

\* the text-generation backend rejected the credential
BackendRejectedCredential ==
    \E i \in 1..Len(calls) : calls[i].outcome = "AuthenticationError"

\* C15: when the activity fetcher cannot authenticate, or the backend
\* rejects the credential, the run ends with a failure status and no persona
\* document is written to the output path.
C15_AuthenticationFatal ==
    (pc = "exited" /\ (FetcherNotAuthenticated \/ BackendRejectedCredential)) =>
        /\ exit_status = "1"
        /\ output_file = <<>>

\* a facet of the document fell back, or there was nothing to analyse
Degraded ==
    \/ persona = NoContentAvailable
    \/ \E facet \in DOMAIN persona_sections \ {"basic_info"} :
          persona_sections[facet].analysis = Fallback[facet]

\* what main reports of a run: its exit status and the labels it printed
Reported == [status |-> exit_status, labels |-> [i \in 1..Len(summary) |-> summary[i].label]]

\* what main reports of a run whose six facets succeeded
ReportedOnSuccess ==
    [status |-> "0",
     labels |-> <<"PERSONA GENERATION COMPLETE", "User", "Posts analyzed",
                  "Comments analyzed", "Output file">>]

\* C16: whenever a facet fell back or no content was available, what main
\* reports of the document it wrote differs from what it reports of a fully
\* successful run, and it tells how many facets succeeded.
C16_DegradedIsReported ==
    (pc = "exited" /\ output_file # <<>> /\ Degraded) =>
        /\ Reported # ReportedOnSuccess
        /\ \E i \in 1..Len(summary) : summary[i].label = "Facets succeeded"

-----------------------------------------------------------------------------
(* Properties of the evidence text and of the prompts                      *)

TagPostTitle == <<"P","O","S","T"," ","T","I","T","L","E",":"," ">>
TagPostContent == <<"P","O","S","T"," ","C","O","N","T","E","N","T",":"," ">>
TagComment == <<"C","O","M","M","E","N","T",":"," ">>

\* what may become a line: of each post its title and its body, then the
\* body of each comment, in Corpus order
Candidates(data) ==
    Flatten([i \in 1..Len(data.posts) |->
                <<[tag |-> TagPostTitle, body |-> FALSE, txt |-> data.posts[i].title],
                  [tag |-> TagPostContent, body |-> TRUE, txt |-> data.posts[i].content]>>])
    \o [i \in 1..Len(data.comments) |->
            [tag |-> TagComment, body |-> TRUE, txt |-> data.comments[i].content]]

Emitted(candidate) ==
    IF candidate.body
    THEN Len(candidate.txt) > min_content_length
    ELSE candidate.txt # <<>>

ExpectedLines(data) ==
    LET emitted == SelectSeq(Candidates(data), Emitted)
    IN  [i \in 1..Len(emitted) |-> emitted[i].tag \o emitted[i].txt]

\* C18: the evidence text is made, in Corpus order, of a POST TITLE line for
\* each post with a non-empty title, a POST CONTENT line for each post whose
\* body is strictly longer than min_content_length, then a COMMENT line for
\* each comment whose body is strictly longer than min_content_length; no
\* other line is emitted.
C18_EvidenceText ==
    pc \notin {"processed"} =>
        /\ evidence = join(<<"\n", "\n">>, ExpectedLines(processed_data))
        /\ evidence = <<>> <=> ExpectedLines(processed_data) = <<>>

\* the Corpus holds a post without title, and a post and a comment whose
\* bodies have exactly min_content_length characters, beside longer ones
C18_Witness ==
    /\ pc = "done"
    /\ evidence # <<>>
    /\ \E i \in 1..Len(processed_data.posts) :
          /\ processed_data.posts[i].title = <<>>
          /\ Len(processed_data.posts[i].content) > min_content_length
    /\ \E i \in 1..Len(processed_data.posts) :
          Len(processed_data.posts[i].content) = min_content_length
    /\ \E i \in 1..Len(processed_data.comments) :
          Len(processed_data.comments[i].content) = min_content_length
    /\ \E i \in 1..Len(processed_data.comments) :
          Len(processed_data.comments[i].content) > min_content_length

\* C19: the evidence text is built once per run, and each of the six facet
\* prompts embeds the same prefix of it: its first PromptBudget (3000)
\* characters, the whole text when it is shorter.  No facet receives more
\* than PromptBudget characters, nor another slice than the other facets.
C19_PromptBudget ==
    /\ pc \notin {"processed"} => evidence = extract_content_for_analysis(processed_data)
    /\ \A i \in 1..Len(calls) :
          /\ Len(calls[i].prompt.content) <= PromptBudget
          /\ calls[i].prompt.content =
                 SubSeq(evidence, 1, IF Len(evidence) < PromptBudget THEN Len(evidence)
                                     ELSE PromptBudget)
          /\ calls[i].prompt.content = calls[1].prompt.content

\* six prompts were made of an evidence text longer than PromptBudget
C19_Witness ==
    /\ pc = "done"
    /\ Len(evidence) > PromptBudget
    /\ Len(calls) = 6
    /\ Len(calls[6].prompt.content) = PromptBudget

-----------------------------------------------------------------------------
(* Properties of the sequence of requests                                  *)

\* the facets whose section is made: the facet has returned or fallen back
Finished == DOMAIN persona_sections \ {"basic_info"}

\* C20: in a run of generate_persona on a non-empty evidence text the
\* backend is called exactly six times, once per facet, in the order
\* demographics, personality, interests, behaviors, motivations,
\* frustrations: a step sends no more than one request, the request is for
\* the facet that follows the facets already requested, all of which have
\* returned or fallen back by then, no facet is requested again whatever its
\* outcome was, and the run ends after the sixth.
C20_SequentialNoRetry ==
    [][/\ \/ calls' = calls
          \/ /\ Len(calls') = Len(calls) + 1
             /\ SubSeq(calls', 1, Len(calls)) = calls
             /\ Len(calls') <= Len(Facets)
             /\ calls'[Len(calls')].facet = Facets[Len(calls')]
             /\ Finished = {Facets[k] : k \in 1..Len(calls)}
             /\ Finished' = {Facets[k] : k \in 1..Len(calls')}
       /\ (pc' = "done" /\ evidence' # <<>>) => Len(calls') = Len(Facets)
       /\ (pc' = "done" /\ evidence' = <<>>) => calls' = <<>>
      ]_vars

\* a run ended after six requests, the third of which had failed
C20_Witness ==
    /\ pc = "done"
    /\ Len(calls) = 6
    /\ [i \in 1..6 |-> calls[i].facet] = Facets
    /\ calls[3].outcome = "RateLimitError"
    /\ calls[4].outcome = "ok"

-----------------------------------------------------------------------------
(* Properties of the citations appendix                                    *)

\* the entries of the citations appendix of a document, in its order
AppendixEntries(doc) == SelectSeq(doc, LAMBDA block : "source" \in DOMAIN block)

HasAppendix(doc) ==
    \E i \in 1..Len(doc) :
        "heading" \in DOMAIN doc[i] /\ doc[i].heading = "CITATIONS & SOURCES"

\* C21: a formatted document holds the citations appendix exactly when the
\* citations are enabled; the appendix lists no more than MaxCitations (5)
\* entries, which are the citations of the demographics facet, in their
\* order, so it is empty whenever that facet fell back, whatever the five
\* others hold; when the citations are disabled each facet's list is empty.
C21_CitationsAppendix ==
    (pc = "done" /\ evidence # <<>>) =>
        LET entries == AppendixEntries(persona)
            cited == persona_sections["demographics"].citations
        IN  /\ HasAppendix(persona) <=> include_citations
            /\ Len(entries) <= MaxCitations
            /\ ~include_citations => entries = <<>>
            /\ include_citations =>
                  /\ Len(entries) = Len(cited)
                  /\ \A i \in 1..Len(entries) :
                        /\ entries[i].source = i
                        /\ entries[i].url = cited[i].url
                        /\ entries[i].subreddit = cited[i].subreddit
                        /\ entries[i].type = upper_type(cited[i].type)
            /\ persona_sections["demographics"].analysis = Fallback["demographics"]
                  => entries = <<>>
            /\ ~include_citations =>
                  \A i \in 1..Len(Facets) : persona_sections[Facets[i]].citations = <<>>

\* with the citations enabled the demographics facet fell back and the five
\* others returned with their citations: the appendix is there, and empty
C21_Witness ==
    /\ pc = "done"
    /\ include_citations
    /\ Len(calls) = 6
    /\ calls[1].outcome = "RateLimitError"
    /\ \A i \in 2..6 : calls[i].outcome = "ok" /\ persona_sections[Facets[i]].citations # <<>>
    /\ HasAppendix(persona)
    /\ AppendixEntries(persona) = <<>>

-----------------------------------------------------------------------------
(* Properties of the ranking of the subreddits                             *)

\* the tags of the surviving posts, then of the surviving comments
CorpusTags ==
    LET items == processed_data.posts \o processed_data.comments
    IN  [i \in 1..Len(items) |-> Get(items[i], "subreddit", <<>>)]

\* how many surviving items carry a tag, and where it is first encountered
TagCount(tag) == Cardinality({i \in 1..Len(CorpusTags) : CorpusTags[i] = tag})
FirstSeen(tag) == Min({i \in 1..Len(CorpusTags) : CorpusTags[i] = tag})

\* a tag comes before another in the ranking
RanksBefore(a, b) ==
    \/ TagCount(a) > TagCount(b)
    \/ TagCount(a) = TagCount(b) /\ FirstSeen(a) < FirstSeen(b)

\* C22: _generate_statistics returns no more than TopSubreddits (10) pairs
\* of a tag and its count, ordered by count descending, tags of equal count
\* in the order in which they are first encountered (the surviving posts in
\* Corpus order, then the surviving comments); the tags left out rank after
\* the listed ones; most_active_subreddit is the tag of the first pair, and
\* None when nothing survived.
C22_TopTagRanking ==
    pc = "statistics_done" =>
        LET top == processed_data.statistics.top_subreddits
            tags == {CorpusTags[i] : i \in 1..Len(CorpusTags)}
            listed == {top[i][1] : i \in 1..Len(top)}
        IN  /\ Len(top) = Min({TopSubreddits, Cardinality(tags)})
            /\ listed \subseteq tags
            /\ \A i \in 1..Len(top) : top[i][2] = TagCount(top[i][1])
            /\ \A i, j \in 1..Len(top) : i < j => RanksBefore(top[i][1], top[j][1])
            /\ \A a \in listed, b \in tags \ listed : RanksBefore(a, b)
            /\ processed_data.statistics.most_active_subreddit =
                   IF top = <<>> THEN None ELSE top[1][1]
            /\ top = <<>> <=> CorpusTags = <<>>

\* more than TopSubreddits tags, two of them carried by two items and the
\* others by one: ten are listed, ties among them and among the ones cut
C22_Witness ==
    /\ pc = "statistics_done"
    /\ Cardinality({CorpusTags[i] : i \in 1..Len(CorpusTags)}) > TopSubreddits
    /\ Len(processed_data.statistics.top_subreddits) = TopSubreddits
    /\ processed_data.statistics.top_subreddits[1][2] = 2
    /\ processed_data.statistics.top_subreddits[2][2] = 2
    /\ processed_data.statistics.top_subreddits[3][2] = 1
    /\ processed_data.statistics.most_active_subreddit = CorpusTags[1]

-----------------------------------------------------------------------------
(* Properties of _categorize_subreddit                                     *)

\* the categories in the order the claim declares them
DeclaredOrder ==
    <<"technology", "gaming", "lifestyle", "entertainment", "news", "educational",
      "hobby", "sports", "finance", "career">>

\* str.upper()
upper(s) ==
    [i \in 1..Len(s) |->
        IF \E k \in 1..26 : LowerSeq[k] = s[i]
        THEN UpperSeq[CHOOSE k \in 1..26 : LowerSeq[k] = s[i]]
        ELSE s[i]]

\* a keyword of the i-th category is a substring of the lower-cased name
Matches(i, name) ==
    \E keyword \in categories[i].keywords : Contains(lower(name), keyword)

\* C23: _categorize_subreddit returns the first category, in the declared
\* order technology, gaming, lifestyle, entertainment, news, educational,
\* hobby, sports, finance, career, one of whose keywords is a substring of
\* the lower-cased tag, "other" when no keyword is contained, and the same
\* category whatever the letter case of the tag.
C23_FirstCategoryWins ==
    /\ [i \in 1..Len(categories) |-> categories[i].category] = DeclaredOrder
    /\ pc = "categorized" =>
          /\ category = "other" <=> \A i \in 1..Len(DeclaredOrder) : ~Matches(i, subreddit_name)
          /\ \A i \in 1..Len(DeclaredOrder) :
                category = DeclaredOrder[i] <=>
                    /\ Matches(i, subreddit_name)
                    /\ \A j \in 1..(i - 1) : ~Matches(j, subreddit_name)
          /\ categorize_subreddit(upper(subreddit_name)) = category
          /\ categorize_subreddit(lower(subreddit_name)) = category

\* a name in mixed case that holds a keyword of a later category before a
\* keyword of an earlier one
C23_Witness ==
    /\ pc = "categorized"
    /\ subreddit_name = <<"N","E","W","S","G","a","m","i","n","g">>
    /\ Matches(2, subreddit_name)
    /\ Matches(5, subreddit_name)
    /\ category = "gaming"

-----------------------------------------------------------------------------
(* Properties of the interrupt                                             *)

Interrupted == Took("KeyboardInterrupt")

\* the requests that were answered or refused, the interrupted one left out
Answered(requests) == SelectSeq(requests, LAMBDA request : request.outcome # "KeyboardInterrupt")

\* C24: once a KeyboardInterrupt occurs during the assembly no request is
\* started afterwards (the one request it may have struck was sent before
\* and is never answered, and its facet gets no section), and the run ends
\* with a failure status without an output document.
C24_InterruptAborts ==
    [][/\ Interrupted' =>
             /\ pc' = "exited"
             /\ exit_status' = "1"
             /\ output_file' = <<>>
             /\ summary' = <<>>
       /\ (Interrupted' /\ ~Interrupted) =>
             /\ Answered(calls') = calls
             /\ Len(calls') <= Len(calls) + 1
             /\ persona_sections' = persona_sections
       /\ Interrupted => calls' = calls
      ]_vars

\* the interrupt struck the third request, after two facets were made
C24_Witness ==
    /\ Interrupted
    /\ Len(calls) = 3
    /\ calls[3].outcome = "KeyboardInterrupt"
    /\ calls[2].outcome = "ok"
    /\ DOMAIN persona_sections = {"basic_info", "demographics", "personality"}
    /\ exit_status = "1"
    /\ output_file = <<>>

-----------------------------------------------------------------------------
(* Properties of the fetch loops                                           *)

\* the ids of the items of a result, in the order of the result
IdSeq(items) == [i \in 1..Len(items) |-> items[i].id]

Increasing(ids) == \A i, j \in 1..Len(ids) : i < j => ids[i] < ids[j]

\* the positions the listing delivers under the limit
Delivered(listing, limit) == {i \in 1..Len(listing) : i <= limit}

\* the result holds exactly the delivered items at the positions `wanted`,
\* once each, in the order of the listing, with their ids and bodies
HoldsExactly(items, listing, wanted) ==
    /\ Increasing(IdSeq(items))
    /\ Range(IdSeq(items)) = wanted
    /\ \A i \in 1..Len(items) : items[i].content = listing[items[i].id].body

WithinLimits ==
    /\ Len(scraped_posts) <= max_posts
    /\ Len(scraped_comments) <= max_comments

\* C25, as stated: every delivered item whose reading did not raise is in
\* the result
C25_EveryOtherItem ==
    pc = "scraped" =>
        /\ HoldsExactly(scraped_posts, submissions,
                        {i \in Delivered(submissions, max_posts) :
                            submissions[i].reads # "raises"})
        /\ HoldsExactly(scraped_comments, user_comments,
                        {i \in Delivered(user_comments, max_comments) :
                            user_comments[i].reads # "raises"})
        /\ WithinLimits

\* C25: an item whose reading raises is left out and nothing else is lost
\* to it: the posts of the result are the other delivered posts, the
\* comments of the result are the other delivered comments whose body is
\* neither "[deleted]" nor "[removed]", both in listing order (a comment whose
\* parent title cannot be read is kept, without the title); the result holds
\* at most max_posts posts and max_comments comments.
C25_PerItemIsolation ==
    pc = "scraped" =>
        /\ HoldsExactly(scraped_posts, submissions,
                        {i \in Delivered(submissions, max_posts) :
                            submissions[i].reads # "raises"})
        /\ HoldsExactly(scraped_comments, user_comments,
                        {i \in Delivered(user_comments, max_comments) :
                            /\ user_comments[i].reads # "raises"
                            /\ user_comments[i].body \notin {Deleted, Removed}})
        /\ \A i \in 1..Len(scraped_comments) :
              scraped_comments[i].parent_post_title =
                 IF user_comments[scraped_comments[i].id].reads = "title_raises"
                 THEN None ELSE <<"t">>
        /\ WithinLimits

\* the second of three comments raises and the other two are returned
C25_Witness ==
    /\ pc = "scraped"
    /\ Len(user_comments) = 3
    /\ max_comments = 3
    /\ user_comments[2].reads = "raises"
    /\ IdSeq(scraped_comments) = <<1, 3>>

-----------------------------------------------------------------------------
(* Frame properties of the pipeline                                        *)

\* the stages of main at which the fetch result exists
AfterScrape == {"process", "processed", "format", "done"} \cup FacetStages

\* the stages of main at which the processed data exist
AfterProcess == AfterScrape \ {"process"}

\* the fields of the items of a corpus, as a citation holds them
CitationCopies(data) ==
    {[type |-> "post", content |-> post.content, title |-> post.title,
      url |-> post.url, subreddit |-> post.subreddit] :
        post \in Range(Get(data, "posts", <<>>))}
    \cup {[type |-> "comment", content |-> comment.content, url |-> comment.url,
           subreddit |-> comment.subreddit] :
              comment \in Range(Get(data, "comments", <<>>))}

\* C26: process_user_data leaves the fetch result as it was; generate_persona
\* and each of its steps leave the processed data (posts, comments, tag
\* list, statistics) as they were; a section, once made, with its citations
\* stays as it was made, and each citation holds the field values of an
\* item, not a reference to it.
C26_ReadOnlyCorpus ==
    [][/\ pc \in AfterScrape => user_data' = user_data
       /\ pc \in AfterProcess => processed_data' = processed_data
       /\ pc \in AfterProcess =>
             \A facet \in DOMAIN persona_sections :
                /\ facet \in DOMAIN persona_sections'
                /\ persona_sections'[facet] = persona_sections[facet]
       /\ pc \in FacetStages =>
             \A facet \in (DOMAIN persona_sections') \ {"basic_info"} :
                Range(persona_sections'[facet].citations) \subseteq CitationCopies(processed_data)
      ]_vars

\* a document with citations was written from a corpus of posts and comments
C26_Witness ==
    /\ pc = "exited"
    /\ exit_status = "0"
    /\ output_file # <<>>
    /\ Len(user_data.posts) > 0
    /\ Len(processed_data.posts) > 0
    /\ Len(processed_data.comments) > 0
    /\ "frustrations" \in DOMAIN persona_sections
    /\ persona_sections["frustrations"].citations # <<>>

-----------------------------------------------------------------------------
(* Survivors of the filter and the evidence text                           *)

\* C27: when the processed data hold at least one post or comment,
\* generate_persona finds a non-empty evidence text, sends the six requests
\* and returns a document, not the text "No content available".
C27_SurvivorsReachBackend ==
    (pc = "done" /\ ~EmptyCorpus(processed_data)) =>
        /\ evidence # <<>>
        /\ Len(calls) = 6
        /\ persona # NoContentAvailable

-----------------------------------------------------------------------------
(* Consistency of the statistics                                           *)

Counts(pairs) == [i \in 1..Len(pairs) |-> pairs[i][2]]

DistinctTags == {CorpusTags[i] : i \in 1..Len(CorpusTags)}

\* total_posts, total_comments and subreddit_diversity are those of the corpus
TotalsOfCorpus ==
    /\ processed_data.statistics.total_posts = Len(processed_data.posts)
    /\ processed_data.statistics.total_comments = Len(processed_data.comments)
    /\ processed_data.statistics.subreddit_diversity = Cardinality(DistinctTags)

-----------------------------------------------------------------------------
(* Agreement of validate_url and extract_username                          *)

\* the <name> of the path /user/<name> or /u/<name> of an accepted URL
ProfileName(u) ==
    LET p == path(u)
        rest == IF HasPrefix(p, <<"/","u","s","e","r","/">>) THEN Drop(p, 6) ELSE Drop(p, 3)
    IN  SubSeq(rest, 1, SpanUntil(rest, {"/"}))

\* C29: for a URL that validate_url accepts, extract_username returns the
\* <name> of its path, which is not empty and holds no "/".
C29_UsernameOfAcceptedUrl ==
    (pc \in {"username", "username_error"} /\ url_ok) =>
        /\ pc = "username"
        /\ extracted = ProfileName(url)
        /\ extracted # <<>>
        /\ "/" \notin Range(extracted)

-----------------------------------------------------------------------------
(* Properties of rate_limit_handler                                        *)

\* the messages that hold "rate limit", in whatever case
RateLimitMessages == {RateLimitExceeded, RateLimitCapitals}

\* the i-th invocation raised an exception about the rate limit
RateLimited(i) ==
    /\ func_outcomes[i].raised
    /\ func_outcomes[i].message \in RateLimitMessages

RetryProtocol ==
    /\ attempts <= 3
    /\ \A i \in 1..(attempts - 1) : RateLimited(i)
    /\ wrapper_result = "running" =>
          /\ attempts < 3
          /\ \A i \in 1..attempts : RateLimited(i)
          /\ delays = [i \in 1..attempts |-> 2 ^ (i - 1)]
    /\ wrapper_result = "returned" =>
          /\ attempts >= 1
          /\ ~func_outcomes[attempts].raised
          /\ delays = [i \in 1..(attempts - 1) |-> 2 ^ (i - 1)]
    /\ wrapper_result = "raised" =>
          /\ attempts >= 1
          /\ func_outcomes[attempts].raised
          /\ RateLimited(attempts) => attempts = 3
          /\ delays = [i \in 1..(attempts - 1) |-> 2 ^ (i - 1)]

\* C30: func is invoked at most 3 times in a call of the wrapper; the
\* wrapper returns at the first invocation that returns and invokes no
\* more; an exception that does not hold "rate limit" (in any case) leaves
\* the wrapper at once; one that does is followed by a sleep of 1 second
\* after the first invocation and of 2 seconds after the second, and leaves
\* the wrapper at the third; the wrapper does not return unless func
\* returned.
C30_RetryProtocol ==
    [][/\ RetryProtocol'
       /\ wrapper_result # "running" => attempts' = attempts
      ]_vars

\* two exceptions about the rate limit, one of them in capitals, then func
\* returns
C30_Witness ==
    /\ pc = "wrapper_done"
    /\ func_outcomes[1].message = RateLimitCapitals
    /\ func_outcomes[2].message = RateLimitExceeded
    /\ ~func_outcomes[3].raised
    /\ attempts = 3
    /\ delays = <<1, 2>>
    /\ wrapper_result = "returned"

====
